---- MODULE Spec2Model ----
(***************************************************************************)
(* Optimus: a sandboxed code-execution service.  The API front-end admits  *)
(* jobs and pushes them on per-language queues of a shared store; a worker *)
(* pops a job, runs it in a container, scores the outputs with the         *)
(* evaluator and writes the ExecutionResult back to the store.             *)
(*                                                                         *)
(* The specifications below share one set of definitions:                  *)
(*   SpecEval    the evaluator as a pure function over bounded inputs      *)
(*   SpecNorm    normalize_output over bounded strings                     *)
(*   SpecApi     the submit handler with its idempotency protocol          *)
(*   Spec        the worker loop, the engine and the result store          *)
(*   FairSpec    Spec with fair scheduling of the worker                   *)
(*   SpecCancel  Spec with repeated cancel requests                        *)
(*   SpecShutdown  Spec with the shutdown signal of the worker             *)
(*   SpecQuery   Spec with status queries                                  *)
(*   SpecQueue   two jobs on the queues of one worker                      *)
(*   SpecEngine  a worker and jobs over the input caps of the engine       *)
(*   SpecClassify  the flags of the engine's outputs                       *)
(*   SpecPool    two workers on the same queues                            *)
(***************************************************************************)
EXTENDS Integers, Sequences, FiniteSets, TLC

VARIABLES
    ev,         \* SpecEval: the evaluator's input and what it returned
    api,        \* the submit handler's requests, one record per connection
    idem,       \* store: optimus:idempotency:{key}
    queue,      \* store: optimus:queue:{language}
    retry,      \* store: optimus:queue:{language}:retry
    dlq,        \* store: optimus:queue:{language}:dlq
    result,     \* store: optimus:result:{job_id}
    status,     \* store: optimus:status:{job_id}
    cancelled,  \* store: optimus:cancel:{job_id}
    nextId,     \* the job ids Uuid::new_v4 has handed out so far, as a counter
    wk,         \* the workers: position in worker_loop and the job held
    cancelling, \* cancel_job calls between their result check and their flag write
    hist        \* history: per job id, the queue pushes and result writes made

vars == <<ev, api, idem, queue, retry, dlq, result, status, cancelled, nextId, wk,
          cancelling, hist>>

storeVars == <<idem, queue, retry, dlq, result, status, cancelled>>

\* The variables of the worker processes and of the cancel handler.
workVars == <<wk, cancelling>>

(***************************************************************************)
(* Strings.  A string is kept run-length encoded: a sequence of runs       *)
(* [c |-> character, n |-> count >= 1] in which adjacent runs carry        *)
(* different characters, so equal strings are equal values and a           *)
(* 64 001-byte payload is one run.  Every character of the model is one    *)
(* byte long.                                                              *)
(***************************************************************************)
Run(c, n) == [c |-> c, n |-> n]

Whitespace == {" ", "\n", "\t", "\r"}

IsWhitespace(c) == c \in Whitespace

\* s.len(): the byte length of the string.
RECURSIVE ByteLen(_)
ByteLen(s) == IF s = <<>> THEN 0 ELSE Head(s).n + ByteLen(Tail(s))

\* x + y on strings; the runs that meet are merged when they carry one character.
Concat(x, y) ==
    IF x = <<>> THEN y
    ELSE IF y = <<>> THEN x
    ELSE IF x[Len(x)].c = y[1].c
         THEN SubSeq(x, 1, Len(x) - 1) \o <<Run(y[1].c, x[Len(x)].n + y[1].n)>> \o Tail(y)
         ELSE x \o y

RECURSIVE TrimStart(_)
TrimStart(s) ==
    IF s = <<>> THEN s
    ELSE IF IsWhitespace(Head(s).c) THEN TrimStart(Tail(s))
    ELSE s

RECURSIVE TrimEnd(_)
TrimEnd(s) ==
    IF s = <<>> THEN s
    ELSE IF IsWhitespace(s[Len(s)].c) THEN TrimEnd(SubSeq(s, 1, Len(s) - 1))
    ELSE s

\* str::trim(): leading and trailing whitespace removed, the rest untouched.
Trim(s) == TrimEnd(TrimStart(s))

\* Mutant of normalize_output: only the leading whitespace is removed.
normalize_output_TrimStart(output) == TrimStart(output)

normalize_output(output) == Trim(output)

(***************************************************************************)
(* u32 arithmetic.  A u32 is kept as two 16-bit limbs <<hi, lo>>; the      *)
(* checker's integers are narrower than the sums the worker computes.      *)
(***************************************************************************)
Limb == 2^16

U32(hi, lo) == <<hi, lo>>

U32Zero == U32(0, 0)

U32Max == U32(Limb - 1, Limb - 1)

\* a + b with the carry out of bit 31 kept: <<carry, hi, lo>>.
AddCarry(a, b) ==
    LET lo == a[2] + b[2]
        hi == a[1] + b[1] + (lo \div Limb)
    IN  <<hi \div Limb, hi % Limb, lo % Limb>>

\* a + b as a release build computes it: modulo 2^32.
WrappingAdd(a, b) == LET r == AddCarry(a, b) IN U32(r[2], r[3])

\* Whether a + b leaves u32 (a debug build panics there).
AddOverflows(a, b) == AddCarry(a, b)[1] > 0

U32Le(a, b) == a[1] < b[1] \/ (a[1] = b[1] /\ a[2] <= b[2])

U32Gt(a, b) == ~U32Le(a, b)

(***************************************************************************)
(* The evaluator (evaluator.rs): a pure function from a job and the        *)
(* engine's outputs to an ExecutionResult.  execution_time_ms is copied    *)
(* through unread and is left out.                                         *)
(***************************************************************************)
TestCase(id, input, expected_output, weight) ==
    [id |-> id, input |-> input, expected_output |-> expected_output, weight |-> weight]

TestExecutionOutput(test_id, stdout, stderr, timed_out, runtime_error, compilation_failed) ==
    [test_id |-> test_id, stdout |-> stdout, stderr |-> stderr, timed_out |-> timed_out,
     runtime_error |-> runtime_error, compilation_failed |-> compilation_failed]

\* Mutant of TestStatusOf: the timeout is looked at only when the output differs.
TestStatusOf_TimeoutAfterCompare(output, test_case) ==
    IF output.compilation_failed THEN "RuntimeError"
    ELSE IF output.runtime_error THEN "RuntimeError"
    ELSE IF Trim(output.stderr) # <<>> THEN "Failed"
    ELSE IF normalize_output(output.stdout) = normalize_output(test_case.expected_output)
         THEN "Passed"
    ELSE IF output.timed_out THEN "TimeLimitExceeded"
    ELSE "Failed"

\* Mutant of TestStatusOf: the timeout is tested before the runtime error.
TestStatusOf_TimeoutFirst(output, test_case) ==
    IF output.compilation_failed THEN "RuntimeError"
    ELSE IF output.timed_out THEN "TimeLimitExceeded"
    ELSE IF output.runtime_error THEN "RuntimeError"
    ELSE IF Trim(output.stderr) # <<>> THEN "Failed"
    ELSE IF normalize_output(output.stdout) = normalize_output(test_case.expected_output)
         THEN "Passed"
         ELSE "Failed"

\* The status evaluate_test computes: the first branch that matches.
TestStatusOf(output, test_case) ==
    IF output.compilation_failed THEN "RuntimeError"
    ELSE IF output.runtime_error THEN "RuntimeError"
    ELSE IF output.timed_out THEN "TimeLimitExceeded"
    ELSE IF Trim(output.stderr) # <<>> THEN "Failed"
    ELSE IF normalize_output(output.stdout) = normalize_output(test_case.expected_output)
         THEN "Passed"
         ELSE "Failed"

evaluate_test(output, test_case) ==
    [test_id |-> output.test_id,
     status  |-> TestStatusOf(output, test_case),
     stdout  |-> output.stdout,
     stderr  |-> output.stderr]

\* job.test_cases.iter().find(|tc| tc.id == output.test_id): the first match.
FindTestCase(job, test_id) ==
    LET i == CHOOSE k \in 1..Len(job.test_cases) :
                 /\ job.test_cases[k].id = test_id
                 /\ \A m \in 1..(k - 1) : job.test_cases[m].id # test_id
    IN  job.test_cases[i]

\* job.test_cases.iter().map(|tc| tc.weight).sum(), with the carries counted.
RECURSIVE SumWeights(_)
SumWeights(test_cases) ==
    IF test_cases = <<>> THEN [sum |-> U32Zero, overflowed |-> FALSE]
    ELSE LET rest == SumWeights(SubSeq(test_cases, 1, Len(test_cases) - 1))
             w    == test_cases[Len(test_cases)].weight
         IN  [sum        |-> WrappingAdd(rest.sum, w),
              overflowed |-> rest.overflowed \/ AddOverflows(rest.sum, w)]

\* The loop of aggregate_results over the outputs, in the order engine produced them.
RECURSIVE ScoreOutputs(_, _)
ScoreOutputs(outputs, job) ==
    IF outputs = <<>> THEN [results |-> <<>>, total_score |-> U32Zero, overflowed |-> FALSE]
    ELSE LET rest        == ScoreOutputs(SubSeq(outputs, 1, Len(outputs) - 1), job)
             output      == outputs[Len(outputs)]
             test_case   == FindTestCase(job, output.test_id)
             test_result == evaluate_test(output, test_case)
             passed      == test_result.status = "Passed"
         IN  [results     |-> Append(rest.results, test_result),
              total_score |-> IF passed THEN WrappingAdd(rest.total_score, test_case.weight)
                                        ELSE rest.total_score,
              overflowed  |-> rest.overflowed
                              \/ (passed /\ AddOverflows(rest.total_score, test_case.weight))]

\* overall_status of aggregate_results.
OverallStatus(total_score) == IF U32Gt(total_score, U32Zero) THEN "Completed" ELSE "Failed"

\* Mutant of aggregate_results: "Completed if any test passed", as its doc
\* comment words it, instead of score > 0.
aggregate_results_AnyPassed(outputs, job) ==
    LET max_score == SumWeights(job.test_cases).sum
        scored    == ScoreOutputs(outputs, job)
    IN  [job_id         |-> job.id,
         overall_status |-> IF \E i \in 1..Len(scored.results) : scored.results[i].status = "Passed"
                            THEN "Completed" ELSE "Failed",
         score          |-> scored.total_score,
         max_score      |-> max_score,
         results        |-> scored.results]

aggregate_results(outputs, job) ==
    LET max_score == SumWeights(job.test_cases).sum
        scored    == ScoreOutputs(outputs, job)
    IN  [job_id         |-> job.id,
         overall_status |-> OverallStatus(scored.total_score),
         score          |-> scored.total_score,
         max_score      |-> max_score,
         results        |-> scored.results]

\* Whether a u32 addition of aggregate_results overflows; a build with overflow
\* checks (debug) panics there, a release build wraps.
AggregateOverflows(outputs, job) ==
    SumWeights(job.test_cases).overflowed \/ ScoreOutputs(outputs, job).overflowed

evaluate(job, outputs) == aggregate_results(outputs, job)

(***************************************************************************)
(* Jobs.                                                                   *)
(***************************************************************************)
\* JobMetadata::default(): no attempt made yet, three allowed.
DefaultMaxAttempts == 3

JobMetadataDefault ==
    [attempts |-> 0, max_attempts |-> DefaultMaxAttempts, last_failure_reason |-> "none"]

JobRequest(id, language, source_code, test_cases, timeout_ms) ==
    [id |-> id, language |-> language, source_code |-> source_code,
     test_cases |-> test_cases, timeout_ms |-> timeout_ms, metadata |-> JobMetadataDefault]

(***************************************************************************)
(* SpecEval: the evaluator applied to every job and output list of a       *)
(* bounded family.                                                         *)
(***************************************************************************)
MaxEvalTests == 2

Str(c) == <<Run(c, 1)>>

EmptyStr == <<>>

\* Expected output of the evaluator's test cases: "a a".
EvalExpected == <<Run("a", 1), Run(" ", 1), Run("a", 1)>>

\* <<stdout, stderr>> pairs: an exact match, a match inside whitespace, a
\* different case, different internal whitespace, a match beside
\* whitespace-only stderr, a match beside a message on stderr.
EvalStreams ==
    { <<EvalExpected, EmptyStr>>,
      <<Concat(<<Run(" ", 2)>>, Concat(EvalExpected, Str("\n"))), EmptyStr>>,
      <<<<Run("A", 1), Run(" ", 1), Run("a", 1)>>, EmptyStr>>,
      <<<<Run("a", 1), Run(" ", 2), Run("a", 1)>>, EmptyStr>>,
      <<EvalExpected, <<Run(" ", 1), Run("\n", 1)>>>>,
      <<EvalExpected, Str("e")>> }

EvalOutputsOf(test_id) ==
    { TestExecutionOutput(test_id, io[1], io[2], t, r, c) :
        io \in EvalStreams, t \in BOOLEAN, r \in BOOLEAN, c \in BOOLEAN }

\* The weights of a job's test cases: all zero, all ten, or 2^32 - 1 followed
\* by ones (sums that leave u32).
EvalWeightPlans == {"zero", "ten", "wrap"}

EvalWeight(plan, id) ==
    CASE plan = "zero" -> U32Zero
      [] plan = "ten"  -> U32(0, 10)
      [] plan = "wrap" -> IF id = 1 THEN U32Max ELSE U32(0, 1)

EvalTestCases(plan, n) == [id \in 1..n |-> TestCase(id, EmptyStr, EvalExpected, EvalWeight(plan, id))]

EvalJobs ==
    { JobRequest(1, "python", Str("a"), EvalTestCases(plan, n), 5000) :
        plan \in EvalWeightPlans, n \in 1..MaxEvalTests }

\* The variables the evaluator's specification leaves alone.
restOfEval == <<api, idem, queue, retry, dlq, result, status, cancelled, nextId, wk,
                cancelling, hist>>

EvalInit ==
    /\ \E job \in EvalJobs :
           ev = [phase |-> "input", job |-> <<job>>, outputs |-> <<>>, result |-> <<>>]
    /\ api = <<>> /\ idem = <<>> /\ queue = <<>> /\ retry = <<>> /\ dlq = <<>>
    /\ result = <<>> /\ status = <<>> /\ cancelled = {} /\ nextId = 1
    /\ wk = <<>> /\ cancelling = {} /\ hist = <<>>

\* The engine hands over the output of the next test case; it returns one
\* output per test case in test-case order, or a prefix when the job was cancelled.
EvalOutput ==
    /\ ev.phase = "input"
    /\ Len(ev.outputs) < Len(ev.job[1].test_cases)
    /\ \E o \in EvalOutputsOf(Len(ev.outputs) + 1) :
           ev' = [ev EXCEPT !.outputs = Append(@, o)]
    /\ UNCHANGED restOfEval

\* evaluator::evaluate returns the result.
EvalReturn ==
    /\ ev.phase = "input"
    /\ ev' = [ev EXCEPT !.phase = "done", !.result = <<evaluate(ev.job[1], ev.outputs)>>]
    /\ UNCHANGED restOfEval

\* evaluator::evaluate panics on an overflowing sum (a build with overflow checks).
EvalPanic ==
    /\ ev.phase = "input"
    /\ AggregateOverflows(ev.outputs, ev.job[1])
    /\ ev' = [ev EXCEPT !.phase = "panicked"]
    /\ UNCHANGED restOfEval

EvalNext == EvalOutput \/ EvalReturn \/ EvalPanic

SpecEval == EvalInit /\ [][EvalNext]_vars

(***************************************************************************)
(* SpecNorm: normalize_output applied to every string of a bounded family  *)
(* and to the string followed by whitespace.                               *)
(***************************************************************************)
MaxNormLen == 3

MaxWsLen == 2

\* The characters of the strings normalized: two letters that differ in
\* case only, and the whitespace characters.
NormAlphabet == {"a", "A"} \cup Whitespace

CharSeqs(alphabet, n) == UNION { [1..k -> alphabet] : k \in 0..n }

\* The string made of the characters of a sequence.
RECURSIVE FromChars(_)
FromChars(chars) ==
    IF chars = <<>> THEN EmptyStr
    ELSE Concat(FromChars(SubSeq(chars, 1, Len(chars) - 1)), Str(chars[Len(chars)]))

NormInit ==
    /\ \E x \in CharSeqs(NormAlphabet, MaxNormLen), w \in CharSeqs(Whitespace, MaxWsLen) :
           ev = [phase |-> "input", x |-> x, w |-> w, nx |-> <<>>, nxw |-> <<>>,
                 nxn |-> <<>>, nnx |-> <<>>]
    /\ api = <<>> /\ idem = <<>> /\ queue = <<>> /\ retry = <<>> /\ dlq = <<>>
    /\ result = <<>> /\ status = <<>> /\ cancelled = {} /\ nextId = 1
    /\ wk = <<>> /\ cancelling = {} /\ hist = <<>>

\* normalize_output is called on x, on x + w, on x + "\n" and on its own result.
NormApply ==
    /\ ev.phase = "input"
    /\ LET x == FromChars(ev.x)
           w == FromChars(ev.w)
       IN  ev' = [ev EXCEPT !.phase = "done",
                            !.nx  = normalize_output(x),
                            !.nxw = normalize_output(Concat(x, w)),
                            !.nxn = normalize_output(Concat(x, Str("\n"))),
                            !.nnx = normalize_output(normalize_output(x))]
    /\ UNCHANGED restOfEval

NormNext == NormApply

SpecNorm == NormInit /\ [][NormNext]_vars

(***************************************************************************)
(* The shared store: per-language queues and the idempotency records.      *)
(***************************************************************************)
\* optimus_common::types::Language.
Languages == {"python", "java", "rust"}

\* LanguageRegistry: the languages of languages.json, loaded once at startup.
EnabledLanguages == {"python"}

is_enabled(language) == language \in EnabledLanguages

NoQueues == [l \in Languages |-> <<>>]

\* What the program has done for each job id: RPUSH/LPUSH commands that
\* succeeded, result writes that succeeded, whether an engine read the
\* cancellation flag of the job as set, the HTTP statuses cancel_job
\* answered for the id, in order, the queue and the time of each push, the
\* time of each pop, and the answers get_job_result gave for the id, in order.
HistOf(id) ==
    IF id \in DOMAIN hist THEN hist[id]
    ELSE [pushes |-> 0, writes |-> 0, observed |-> FALSE, cancel |-> <<>>,
          pushed |-> <<>>, popped |-> <<>>, queries |-> <<>>, late |-> FALSE]

\* The pushes and pops the store has executed for the job ids in `ids`.
RECURSIVE QueueCommands(_)
QueueCommands(ids) ==
    IF ids = {} THEN 0
    ELSE LET id == CHOOSE i \in ids : TRUE
         IN  Len(hist[id].pushed) + Len(hist[id].popped) + QueueCommands(ids \ {id})

\* The store executes its commands one at a time: the time of the next one.
StoreClock == QueueCommands(DOMAIN hist) + 1

HistPush(id, list) ==
    [i \in DOMAIN hist \cup {id} |->
        IF i = id THEN [HistOf(id) EXCEPT !.pushes = @ + 1,
                                          !.pushed = Append(@, [list |-> list, at |-> StoreClock])]
        ELSE hist[i]]

HistPop(id) ==
    [i \in DOMAIN hist \cup {id} |->
        IF i = id THEN [HistOf(id) EXCEPT !.popped = Append(@, StoreClock)] ELSE hist[i]]

HistObserve(id) ==
    [i \in DOMAIN hist \cup {id} |->
        IF i = id THEN [HistOf(id) EXCEPT !.observed = TRUE] ELSE hist[i]]

HistCancel(id, http) ==
    [i \in DOMAIN hist \cup {id} |->
        IF i = id THEN [HistOf(id) EXCEPT !.cancel = Append(@, http)] ELSE hist[i]]

\* The flag of id is written (200); `late` tells whether that happens when
\* the engine has made its last cancellation check for the job.
HistFlag(id, late) == [HistCancel(id, 200) EXCEPT ![id].late = late]

HistQuery(id, answer) ==
    [i \in DOMAIN hist \cup {id} |->
        IF i = id THEN [HistOf(id) EXCEPT !.queries = Append(@, answer)] ELSE hist[i]]

HistWrite(id) ==
    [i \in DOMAIN hist \cup {id} |->
        IF i = id THEN [HistOf(id) EXCEPT !.writes = @ + 1] ELSE hist[i]]

\* Mutant of push_job: LPUSH, the job is put at the head of the list.
push_job_LeftPush(q, job) == [q EXCEPT ![job.language] = <<job>> \o @]

\* redis::push_job: RPUSH of the serialized job onto the queue of its language.
push_job(q, job) == [q EXCEPT ![job.language] = Append(@, job)]

(***************************************************************************)
(* POST /execute (submit_job).                                             *)
(***************************************************************************)
MAX_TEST_CASES == 100

MAX_SOURCE_CODE_SIZE == 256000

MAX_STDIN_SIZE == 64000

MAX_EXPECTED_OUTPUT_SIZE == 64000

MAX_TIMEOUT_MS == 60000

MIN_TIMEOUT_MS == 1

default_timeout == 5000

default_weight == U32(0, 10)

\* A test case of the JSON body; weight is <<>> when the body omits it.
TestCaseInput(input, expected_output, weight) ==
    [input |-> input, expected_output |-> expected_output, weight |-> weight]

\* The JSON body; timeout_ms is <<>> when the body omits it.
SubmitBody(language, source_code, test_cases, timeout_ms) ==
    [language |-> language, source_code |-> source_code,
     test_cases |-> test_cases, timeout_ms |-> timeout_ms]

\* Json<SubmitRequest>: serde fills the omitted fields with their defaults.
SubmitRequest(body) ==
    [language    |-> body.language,
     source_code |-> body.source_code,
     test_cases  |-> [i \in 1..Len(body.test_cases) |->
                        [input           |-> body.test_cases[i].input,
                         expected_output |-> body.test_cases[i].expected_output,
                         weight          |-> IF body.test_cases[i].weight = <<>>
                                             THEN default_weight
                                             ELSE body.test_cases[i].weight[1]]],
     timeout_ms  |-> IF body.timeout_ms = <<>> THEN default_timeout ELSE body.timeout_ms[1]]

\* serde_json::to_string(&payload): the fields in declaration order.
payload_json(payload) ==
    <<payload.language, payload.source_code,
      [i \in 1..Len(payload.test_cases) |->
          <<payload.test_cases[i].input, payload.test_cases[i].expected_output,
            payload.test_cases[i].weight>>],
      payload.timeout_ms>>

\* Check 4: the first test case, in order, with an oversized input or
\* expected output.
TestCaseSizeError(test_cases) ==
    LET over == { i \in 1..Len(test_cases) :
                    \/ ByteLen(test_cases[i].input) > MAX_STDIN_SIZE
                    \/ ByteLen(test_cases[i].expected_output) > MAX_EXPECTED_OUTPUT_SIZE }
    IN  IF over = {} THEN "OK"
        ELSE LET idx == CHOOSE i \in over : \A j \in over : i <= j
             IN  IF ByteLen(test_cases[idx].input) > MAX_STDIN_SIZE
                 THEN "TEST_CASE_INPUT_TOO_LARGE"
                 ELSE "TEST_CASE_OUTPUT_TOO_LARGE"

\* Mutant of SafetyChecks: the source size limit is exclusive.
SafetyChecks_ExclusiveSourceLimit(payload) ==
    IF payload.test_cases = <<>> THEN "NO_TEST_CASES"
    ELSE IF Len(payload.test_cases) > MAX_TEST_CASES THEN "TOO_MANY_TEST_CASES"
    ELSE IF ByteLen(payload.source_code) >= MAX_SOURCE_CODE_SIZE THEN "SOURCE_CODE_TOO_LARGE"
    ELSE IF Trim(payload.source_code) = <<>> THEN "EMPTY_SOURCE_CODE"
    ELSE IF TestCaseSizeError(payload.test_cases) # "OK"
         THEN TestCaseSizeError(payload.test_cases)
    ELSE IF payload.timeout_ms < MIN_TIMEOUT_MS \/ payload.timeout_ms > MAX_TIMEOUT_MS
         THEN "INVALID_TIMEOUT"
    ELSE "OK"

\* The safety checks 1 to 5 of submit_job: the code of the first that fails.
SafetyChecks(payload) ==
    IF payload.test_cases = <<>> THEN "NO_TEST_CASES"
    ELSE IF Len(payload.test_cases) > MAX_TEST_CASES THEN "TOO_MANY_TEST_CASES"
    ELSE IF ByteLen(payload.source_code) > MAX_SOURCE_CODE_SIZE THEN "SOURCE_CODE_TOO_LARGE"
    ELSE IF Trim(payload.source_code) = <<>> THEN "EMPTY_SOURCE_CODE"
    ELSE IF TestCaseSizeError(payload.test_cases) # "OK"
         THEN TestCaseSizeError(payload.test_cases)
    ELSE IF payload.timeout_ms < MIN_TIMEOUT_MS \/ payload.timeout_ms > MAX_TIMEOUT_MS
         THEN "INVALID_TIMEOUT"
    ELSE "OK"

\* Mutant of BuildJob: the test cases are numbered from 0.
BuildJob_ZeroBased(job_id, payload) ==
    JobRequest(job_id, payload.language, payload.source_code,
               [i \in 1..Len(payload.test_cases) |->
                   TestCase(i - 1, payload.test_cases[i].input,
                            payload.test_cases[i].expected_output,
                            payload.test_cases[i].weight)],
               payload.timeout_ms)

\* The job submit_job builds: test cases numbered 1..N in submission order.
BuildJob(job_id, payload) ==
    JobRequest(job_id, payload.language, payload.source_code,
               [i \in 1..Len(payload.test_cases) |->
                   TestCase(i, payload.test_cases[i].input,
                            payload.test_cases[i].expected_output,
                            payload.test_cases[i].weight)],
               payload.timeout_ms)

\* Mutant of IdempotencyCheck: a matching record is not honoured.
IdempotencyCheck_NoReplay(stored, json) ==
    IF stored = <<>> THEN "proceed"
    ELSE IF stored[1].payload = json THEN "proceed"
    ELSE "conflict"

\* Mutant of IdempotencyCheck: a different payload under the key goes on.
IdempotencyCheck_NoConflict(stored, json) ==
    IF stored = <<>> THEN "proceed"
    ELSE IF stored[1].payload = json THEN "replay"
    ELSE "proceed"

\* What submit_job does with the answer of GET optimus:idempotency:{key}.
IdempotencyCheck(stored, json) ==
    IF stored = <<>> THEN "proceed"
    ELSE IF stored[1].payload = json THEN "replay"
    ELSE "conflict"

Accepted(job_id) == [http |-> 202, code |-> "ACCEPTED", job_id |-> <<job_id>>]

Rejected(http, code) == [http |-> http, code |-> code, job_id |-> <<>>]

\* The HTTP status submit_job sends with each error code.
HttpOf(code) ==
    CASE code = "LANGUAGE_NOT_SUPPORTED" -> 422
      [] code = "IDEMPOTENCY_CONFLICT" -> 409
      [] code \in {"SOURCE_CODE_TOO_LARGE", "TEST_CASE_INPUT_TOO_LARGE",
                   "TEST_CASE_OUTPUT_TOO_LARGE"} -> 413
      [] code = "QUEUE_FAILURE" -> 500
      [] OTHER -> 400

\* A request slot before its request arrives.
NoRequest ==
    [pc |-> "idle", key |-> <<>>, payload |-> <<>>, lookup |-> "skipped",
     job_id |-> <<>>, recorded |-> FALSE, response |-> <<>>]

Respond(slot, response) == [slot EXCEPT !.pc = "done", !.response = <<response>>]

MaxRequests == 2

Requests == 1..MaxRequests

Keys == {"k1"}

\* The Idempotency-Key header: absent, or one of the keys.
KeyChoices == {<<>>} \cup { <<k>> : k \in Keys }

\* Mutant of SubmitArrive: a failed lookup of the record ends the request.
SubmitArrive_RejectOnLookupError(r, keys, bodies) ==
    /\ api[r].pc = "idle"
    /\ \A q \in 1..(r - 1) : api[q].pc # "idle"
    /\ \E key \in keys, body \in bodies :
       \E payload \in {SubmitRequest(body)}, get_ok \in (IF key = <<>> THEN {TRUE} ELSE BOOLEAN) :
       \E checks \in {SafetyChecks(payload)} :
          LET json    == payload_json(payload)
              stored  == IF key = <<>> THEN <<>> ELSE idem[key[1]]
              lookup  == IF key = <<>> THEN "skipped"
                         ELSE IF ~get_ok THEN "error"
                         ELSE IF stored = <<>> THEN "none" ELSE "found"
              verdict == IF lookup = "found" THEN IdempotencyCheck(stored, json)
                         ELSE "proceed"
              arrived == [api[r] EXCEPT !.key = key, !.payload = <<payload>>]
              looked  == [arrived EXCEPT !.lookup = lookup]
          IN  IF ~is_enabled(payload.language)
              THEN /\ api' = [api EXCEPT ![r] =
                                 Respond(arrived, Rejected(HttpOf("LANGUAGE_NOT_SUPPORTED"),
                                                           "LANGUAGE_NOT_SUPPORTED"))]
                   /\ UNCHANGED nextId
              ELSE IF lookup = "error"
              THEN /\ api' = [api EXCEPT ![r] =
                                 Respond(looked, Rejected(HttpOf("QUEUE_FAILURE"), "QUEUE_FAILURE"))]
                   /\ UNCHANGED nextId
              ELSE IF verdict = "replay"
              THEN /\ api' = [api EXCEPT ![r] = Respond(looked, Accepted(stored[1].job_id))]
                   /\ UNCHANGED nextId
              ELSE IF verdict = "conflict"
              THEN /\ api' = [api EXCEPT ![r] =
                                 Respond(looked, Rejected(HttpOf("IDEMPOTENCY_CONFLICT"),
                                                          "IDEMPOTENCY_CONFLICT"))]
                   /\ UNCHANGED nextId
              ELSE /\ nextId' = nextId + 1
                   /\ IF checks # "OK"
                      THEN api' = [api EXCEPT ![r] = Respond(looked, Rejected(HttpOf(checks), checks))]
                      ELSE api' = [api EXCEPT ![r] =
                                      [looked EXCEPT !.pc = "push", !.job_id = <<nextId>>]]
    /\ UNCHANGED <<ev, storeVars, workVars, hist>>

\* submit_job up to the end of its safety checks: the language check, the
\* GET of the idempotency record (which the store may fail), the fresh job
\* id, the checks.
SubmitArrive(r, keys, bodies) ==
    /\ api[r].pc = "idle"
    /\ \A q \in 1..(r - 1) : api[q].pc # "idle"
    /\ \E key \in keys, body \in bodies :
       \E payload \in {SubmitRequest(body)}, get_ok \in (IF key = <<>> THEN {TRUE} ELSE BOOLEAN) :
       \E checks \in {SafetyChecks(payload)} :
          LET json    == payload_json(payload)
              stored  == IF key = <<>> THEN <<>> ELSE idem[key[1]]
              lookup  == IF key = <<>> THEN "skipped"
                         ELSE IF ~get_ok THEN "error"
                         ELSE IF stored = <<>> THEN "none" ELSE "found"
              verdict == IF lookup = "found" THEN IdempotencyCheck(stored, json)
                         ELSE "proceed"
              arrived == [api[r] EXCEPT !.key = key, !.payload = <<payload>>]
              looked  == [arrived EXCEPT !.lookup = lookup]
          IN  IF ~is_enabled(payload.language)
              THEN /\ api' = [api EXCEPT ![r] =
                                 Respond(arrived, Rejected(HttpOf("LANGUAGE_NOT_SUPPORTED"),
                                                           "LANGUAGE_NOT_SUPPORTED"))]
                   /\ UNCHANGED nextId
              ELSE IF verdict = "replay"
              THEN /\ api' = [api EXCEPT ![r] = Respond(looked, Accepted(stored[1].job_id))]
                   /\ UNCHANGED nextId
              ELSE IF verdict = "conflict"
              THEN /\ api' = [api EXCEPT ![r] =
                                 Respond(looked, Rejected(HttpOf("IDEMPOTENCY_CONFLICT"),
                                                          "IDEMPOTENCY_CONFLICT"))]
                   /\ UNCHANGED nextId
              ELSE /\ nextId' = nextId + 1
                   /\ IF checks # "OK"
                      THEN api' = [api EXCEPT ![r] = Respond(looked, Rejected(HttpOf(checks), checks))]
                      ELSE api' = [api EXCEPT ![r] =
                                      [looked EXCEPT !.pc = "push", !.job_id = <<nextId>>]]
    /\ UNCHANGED <<ev, storeVars, workVars, hist>>

\* The job is built and pushed (redis::push_job): the RPUSH succeeds, or
\* fails and the request is answered QUEUE_FAILURE.
SubmitPush(r) ==
    /\ api[r].pc = "push"
    /\ \/ /\ queue' = push_job(queue, BuildJob(api[r].job_id[1], api[r].payload[1]))
          /\ hist' = HistPush(api[r].job_id[1], "main")
          /\ api' = [api EXCEPT ![r] =
                        IF api[r].key = <<>>
                        THEN Respond(api[r], Accepted(api[r].job_id[1]))
                        ELSE [api[r] EXCEPT !.pc = "record"]]
       \/ /\ api' = [api EXCEPT ![r] =
                        Respond(api[r], Rejected(HttpOf("QUEUE_FAILURE"), "QUEUE_FAILURE"))]
          /\ UNCHANGED <<queue, hist>>
    /\ UNCHANGED <<ev, idem, retry, dlq, result, status, cancelled, nextId, workVars>>

SubmitRecord_RejectOnFailure(r) ==
    /\ api[r].pc = "record"
    /\ \/ /\ idem' = [idem EXCEPT ![api[r].key[1]] =
                         <<[job_id |-> api[r].job_id[1],
                            payload |-> payload_json(api[r].payload[1])]>>]
          /\ api' = [api EXCEPT ![r] =
                        Respond([api[r] EXCEPT !.recorded = TRUE], Accepted(api[r].job_id[1]))]
       \/ /\ UNCHANGED idem
          /\ api' = [api EXCEPT ![r] =
                        Respond(api[r], Rejected(HttpOf("QUEUE_FAILURE"), "QUEUE_FAILURE"))]
    /\ UNCHANGED <<ev, queue, retry, dlq, result, status, cancelled, nextId, workVars, hist>>

\* SETEX of the idempotency record after the push; a failure is only logged.
SubmitRecord(r) ==
    /\ api[r].pc = "record"
    /\ \/ /\ idem' = [idem EXCEPT ![api[r].key[1]] =
                         <<[job_id |-> api[r].job_id[1],
                            payload |-> payload_json(api[r].payload[1])]>>]
          /\ api' = [api EXCEPT ![r] =
                        Respond([api[r] EXCEPT !.recorded = TRUE], Accepted(api[r].job_id[1]))]
       \/ /\ UNCHANGED idem
          /\ api' = [api EXCEPT ![r] = Respond(api[r], Accepted(api[r].job_id[1]))]
    /\ UNCHANGED <<ev, queue, retry, dlq, result, status, cancelled, nextId, workVars, hist>>

\* The 24 hour TTL of an idempotency record runs out.
IdemExpire(k) ==
    /\ idem[k] # <<>>
    /\ idem' = [idem EXCEPT ![k] = <<>>]
    /\ UNCHANGED <<ev, api, queue, retry, dlq, result, status, cancelled, nextId, workVars, hist>>

(***************************************************************************)
(* SpecApi: submit_job under concurrent requests drawn from a family of    *)
(* bodies that meets every admission rule on both sides of its limit.      *)
(***************************************************************************)
Bytes(n) == <<Run("a", n)>>

TcSmall == TestCaseInput(Str("1"), Str("1"), <<>>)

TcEmpty == TestCaseInput(EmptyStr, EmptyStr, <<>>)

Tcs(n) == [i \in 1..n |-> TcEmpty]

\* A body at every upper limit: 256000 bytes of source, 100 test cases, the
\* first with 64000 bytes of input and of expected output, 60000 ms.
BodyAtLimits ==
    SubmitBody("python", Bytes(MAX_SOURCE_CODE_SIZE),
               [i \in 1..MAX_TEST_CASES |->
                   IF i = 1 THEN TestCaseInput(Bytes(MAX_STDIN_SIZE),
                                               Bytes(MAX_EXPECTED_OUTPUT_SIZE), <<U32Zero>>)
                   ELSE TcEmpty],
               <<MAX_TIMEOUT_MS>>)

ApiBodies ==
    { \* admitted
      SubmitBody("python", Str("a"), <<TcSmall>>, <<>>),
      SubmitBody("python", Str("a"), <<TestCaseInput(Str("1"), Str("1"), <<default_weight>>)>>,
                 <<default_timeout>>),
      SubmitBody("python", Str("b"), <<TcSmall>>, <<MIN_TIMEOUT_MS>>),
      BodyAtLimits,
      \* one rule broken
      SubmitBody("java", Str("a"), <<TcSmall>>, <<>>),
      SubmitBody("python", Str("a"), <<>>, <<>>),
      SubmitBody("python", Str("a"), Tcs(MAX_TEST_CASES + 1), <<>>),
      SubmitBody("python", Bytes(MAX_SOURCE_CODE_SIZE + 1), <<TcSmall>>, <<>>),
      SubmitBody("python", <<Run(" ", 2), Run("\n", 1)>>, <<TcSmall>>, <<>>),
      SubmitBody("python", Str("a"),
                 <<TcSmall, TestCaseInput(Bytes(MAX_STDIN_SIZE + 1), Str("1"), <<>>)>>, <<>>),
      SubmitBody("python", Str("a"),
                 <<TestCaseInput(Str("1"), Bytes(MAX_EXPECTED_OUTPUT_SIZE + 1), <<>>)>>, <<>>),
      SubmitBody("python", Str("a"), <<TcSmall>>, <<MIN_TIMEOUT_MS - 1>>),
      SubmitBody("python", Str("a"), <<TcSmall>>, <<MAX_TIMEOUT_MS + 1>>),
      \* several rules broken
      SubmitBody("rust", EmptyStr, <<>>, <<0>>),
      SubmitBody("python", <<Run(" ", MAX_SOURCE_CODE_SIZE + 1)>>, <<>>, <<0>>),
      SubmitBody("python", EmptyStr,
                 <<TestCaseInput(Bytes(MAX_STDIN_SIZE + 1), Str("1"), <<>>)>>, <<>>),
      SubmitBody("python", Str("a"),
                 <<TestCaseInput(Str("1"), Bytes(MAX_EXPECTED_OUTPUT_SIZE + 1), <<>>),
                   TestCaseInput(Bytes(MAX_STDIN_SIZE + 1), Str("1"), <<>>)>>, <<0>>) }

ApiInit ==
    /\ api = [r \in Requests |-> NoRequest]
    /\ idem = [k \in Keys |-> <<>>]
    /\ queue = NoQueues /\ retry = NoQueues /\ dlq = NoQueues
    /\ nextId = 1
    /\ hist = <<>>
    /\ ev = <<>> /\ result = <<>> /\ status = <<>> /\ cancelled = {}
    /\ wk = <<>> /\ cancelling = {}

ApiArrive == \E r \in Requests : SubmitArrive(r, KeyChoices, ApiBodies)

ApiPush == \E r \in Requests : SubmitPush(r)

ApiRecord == \E r \in Requests : SubmitRecord(r)

ApiExpire == \E k \in Keys : IdemExpire(k)

ApiNext == ApiArrive \/ ApiPush \/ ApiRecord \/ ApiExpire

SpecApi == ApiInit /\ [][ApiNext]_vars

(***************************************************************************)
(* The execution engine.                                                   *)
(***************************************************************************)
\* What the daemon and the container do with one test: a daemon error, a
\* run past the deadline, or an exit with the streams collected.
ContainerRun(daemon_error, deadline_passed, exit_code, stdout, stderr) ==
    [daemon_error |-> daemon_error, deadline_passed |-> deadline_passed,
     exit_code |-> exit_code, stdout |-> stdout, stderr |-> stderr]

\* What a process that is still running at the deadline has written so far.
PartialStdout == Str("p")

PartialStderr == Str("q")

\* The runs of one test: exit 0 with the expected output, exit 0 with
\* another output, exit 1 after the expected output, a run past the
\* deadline that has written part of its output, a daemon error.
ContainerRuns(test_case) ==
    { ContainerRun(FALSE, FALSE, <<0>>, test_case.expected_output, EmptyStr),
      ContainerRun(FALSE, FALSE, <<0>>, Str("x"), EmptyStr),
      ContainerRun(FALSE, FALSE, <<1>>, test_case.expected_output, Str("e")),
      ContainerRun(FALSE, TRUE, <<>>, PartialStdout, PartialStderr),
      ContainerRun(TRUE, FALSE, <<>>, EmptyStr, EmptyStr) }

\* The text the engine puts in stderr when a container-daemon call fails
\* ("Docker execution error: ...", "Failed to pull image: ...", ...).
DaemonErrorText == Str("D")

\* The text execute_in_container puts in stderr after a timeout.
TimeoutText == Str("T")

\* The error text a failing compiler writes to its stderr.
CompilerErrorText == Str("c")

\* The streams of the compile exec: the command is run as
\* bash -c "<compiler> 2>&1", so what the compiler writes to its stderr
\* arrives on the stdout stream of the exec, and its stderr stream is empty.
CompileStreams(compiler_stdout, compiler_stderr) ==
    [stdout |-> Concat(compiler_stdout, compiler_stderr), stderr |-> EmptyStr]

\* compile_in_container: the CompilationResult of a compile step that ended
\* with exit_code; a failure carries the stderr stream.
compile_in_container(exit_code, compiler_stdout, compiler_stderr) ==
    LET streams == CompileStreams(compiler_stdout, compiler_stderr)
    IN  IF exit_code = 0
        THEN [success |-> TRUE, stderr |-> EmptyStr]
        ELSE [success |-> FALSE, stderr |-> streams.stderr]

\* Mutant of TestOutputOf: every exit code other than Some(0) is a runtime
\* error, the unknown one included, also after the deadline.
TestOutputOf_ErrorUnlessZero(test_id, run) ==
    IF run.daemon_error
    THEN TestExecutionOutput(test_id, EmptyStr, DaemonErrorText, FALSE, TRUE, FALSE)
    ELSE IF run.deadline_passed
    THEN TestExecutionOutput(test_id, EmptyStr, TimeoutText, TRUE, run.exit_code # <<0>>, FALSE)
    ELSE TestExecutionOutput(test_id, run.stdout, run.stderr, FALSE,
                             run.exit_code # <<0>>, FALSE)

\* execute_in_container / execute_test_in_container and the match of their
\* caller: the output of one test, with the test id set by the caller.
TestOutputOf(test_id, run) ==
    IF run.daemon_error
    THEN TestExecutionOutput(test_id, EmptyStr, DaemonErrorText, FALSE, TRUE, FALSE)
    ELSE IF run.deadline_passed
    THEN TestExecutionOutput(test_id, EmptyStr, TimeoutText, TRUE, FALSE, FALSE)
    ELSE TestExecutionOutput(test_id, run.stdout, run.stderr, FALSE,
                             run.exit_code # <<>> /\ run.exit_code[1] # 0, FALSE)

\* The input caps of the engine.
MAX_SOURCE_CODE_BYTES == 1048576

MAX_TEST_INPUT_BYTES == 10485760

\* The text of the error execute_in_container and execute_test_in_container
\* return for an input over a cap ("... exceeds maximum size of N bytes").
CapErrorText == Str("C")

\* The guardrail at the head of execute_in_container (source and input) and
\* of execute_test_in_container (input only): whether it bails.
CapsViolated(mode, job, test_case) ==
    \/ mode = "legacy" /\ ByteLen(job.source_code) > MAX_SOURCE_CODE_BYTES
    \/ ByteLen(test_case.input) > MAX_TEST_INPUT_BYTES

\* The call of the engine returned Err before any container ran the test.
NoRun == ContainerRun(TRUE, FALSE, <<>>, EmptyStr, EmptyStr)

\* The output the test loops make of the Err of a guardrail.
CapErrorOutput(test_id) ==
    TestExecutionOutput(test_id, EmptyStr, CapErrorText, FALSE, TRUE, FALSE)

create_compilation_error_outputs(test_cases, error_message) ==
    [i \in 1..Len(test_cases) |->
        TestExecutionOutput(test_cases[i].id, EmptyStr, error_message, FALSE, FALSE, TRUE)]

\* optimus_common::redis::is_job_cancelled, as the engine reads it: a failed
\* check counts as not cancelled.
\* Mutant of SeesCancelled: a failed check counts as a cancellation.
SeesCancelled_ErrorStops(job_id, check_ok) == ~check_ok \/ job_id \in cancelled

SeesCancelled(job_id, check_ok) == check_ok /\ job_id \in cancelled

(***************************************************************************)
(* The worker (worker_loop).                                               *)
(***************************************************************************)
Workers == {"w1"}

\* WORKER_LANGUAGE of each worker process.
WorkerLanguage(w) == "python"

\* USE_COMPILE_ONCE of each worker process.
ExecutionModes == {"legacy", "compile_once"}

\* The containers a worker's engine has created: those held by a live
\* ContainerGuard, those whose guard was dropped and whose removal task has
\* not run yet, those removed, and those whose removal failed; the
\* processes of timed-out tests that still run in the container held; and
\* the compile steps (compile_in_container) run in the containers.
NoContainers ==
    [held |-> 0, removing |-> 0, removed |-> 0, leaked |-> 0, running |-> 0, compiled |-> 0]

\* create_container followed by ContainerGuard::new.
ContainerGuardNew(containers) == [containers EXCEPT !.held = @ + 1]

\* Drop for ContainerGuard: the removal is handed to a spawned task.
ContainerGuardDrop(containers) ==
    [containers EXCEPT !.held = @ - 1, !.removing = @ + 1, !.running = 0]

\* compile_in_container has run its compile command in the container.
Compiled(containers) == [containers EXCEPT !.compiled = @ + 1]

\* execute_test_in_container at the deadline: the future that reads the exec
\* is dropped and the function returns; no call ends the process of the exec.
ExecAbandoned(containers) == [containers EXCEPT !.running = @ + 1]

IdleWorker(mode) ==
    [pc |-> "idle", mode |-> mode, job |-> <<>>, outputs |-> <<>>, runs |-> <<>>,
     res |-> <<>>, containers |-> NoContainers]

\* The loop comes back to pop_job_with_retry; the removal tasks go on.
BackToIdle(worker) == [IdleWorker(worker.mode) EXCEPT !.containers = worker.containers]

\* Mutant of ShouldRetry: the attempt that reaches max_attempts is retried too.
ShouldRetry_Inclusive(metadata) == metadata.attempts <= metadata.max_attempts

ShouldRetry(metadata) == metadata.attempts < metadata.max_attempts

\* The ExecutionResult worker_loop stores on the dead-letter path.
failed_result(job) ==
    [job_id         |-> job.id,
     overall_status |-> "Failed",
     score          |-> U32Zero,
     max_score      |-> SumWeights(job.test_cases).sum,
     results        |-> <<>>]

SetKey(f, k, v) == [i \in DOMAIN f \cup {k} |-> IF i = k THEN v ELSE f[i]]

HasKey(f, k) == k \in DOMAIN f

\* Mutant of WorkerPop: the retry queue is served before the main queue.
WorkerPop_RetryFirst(w) ==
    LET l == WorkerLanguage(w)
    IN  /\ wk[w].pc = "idle"
        /\ \/ /\ retry[l] = <<>> /\ queue[l] # <<>>
              /\ wk' = [wk EXCEPT ![w] = [@ EXCEPT !.pc = "engine", !.job = <<Head(queue[l])>>]]
              /\ queue' = [queue EXCEPT ![l] = Tail(@)]
              /\ hist' = HistPop(Head(queue[l]).id)
              /\ UNCHANGED retry
           \/ /\ retry[l] # <<>>
              /\ wk' = [wk EXCEPT ![w] = [@ EXCEPT !.pc = "engine", !.job = <<Head(retry[l])>>]]
              /\ retry' = [retry EXCEPT ![l] = Tail(@)]
              /\ hist' = HistPop(Head(retry[l]).id)
              /\ UNCHANGED queue
        /\ UNCHANGED <<ev, api, idem, dlq, result, status, cancelled, nextId, cancelling>>

\* pop_job_with_retry: BLPOP on the main and the retry queue, main first.
\* A timeout (both queues empty) and a store error change nothing and the
\* loop comes back here.
WorkerPop(w) ==
    LET l == WorkerLanguage(w)
    IN  /\ wk[w].pc = "idle"
        /\ \/ /\ queue[l] # <<>>
              /\ wk' = [wk EXCEPT ![w] = [@ EXCEPT !.pc = "engine", !.job = <<Head(queue[l])>>]]
              /\ queue' = [queue EXCEPT ![l] = Tail(@)]
              /\ hist' = HistPop(Head(queue[l]).id)
              /\ UNCHANGED retry
           \/ /\ queue[l] = <<>> /\ retry[l] # <<>>
              /\ wk' = [wk EXCEPT ![w] = [@ EXCEPT !.pc = "engine", !.job = <<Head(retry[l])>>]]
              /\ retry' = [retry EXCEPT ![l] = Tail(@)]
              /\ hist' = HistPop(Head(retry[l]).id)
              /\ UNCHANGED queue
        /\ UNCHANGED <<ev, api, idem, dlq, result, status, cancelled, nextId, cancelling>>

\* Mutant of EngineNew: the failed attempt is not counted.
EngineNew_NoCount(w) ==
    /\ wk[w].pc = "engine"
    /\ \/ wk' = [wk EXCEPT ![w] =
                    [@ EXCEPT !.pc = IF wk[w].mode = "compile_once" THEN "setup" ELSE "test"]]
       \/ LET metadata == [wk[w].job[1].metadata EXCEPT
                              !.attempts = @,
                              !.last_failure_reason = "Execution error"]
          IN  wk' = [wk EXCEPT ![w] =
                        [@ EXCEPT !.job = <<[wk[w].job[1] EXCEPT !.metadata = metadata]>>,
                                  !.pc = IF ShouldRetry(metadata) THEN "retry" ELSE "dlq"]]
    /\ UNCHANGED <<ev, api, storeVars, nextId, cancelling, hist>>

\* execute_docker, step 1: DockerEngine::new_with_config connects to the
\* daemon.  Its error is the only one execute_docker returns; worker_loop
\* then counts the attempt and records the reason.
EngineNew(w) ==
    /\ wk[w].pc = "engine"
    /\ \/ wk' = [wk EXCEPT ![w] =
                    [@ EXCEPT !.pc = IF wk[w].mode = "compile_once" THEN "setup" ELSE "test"]]
       \/ LET metadata == [wk[w].job[1].metadata EXCEPT
                              !.attempts = @ + 1,
                              !.last_failure_reason = "Execution error"]
          IN  wk' = [wk EXCEPT ![w] =
                        [@ EXCEPT !.job = <<[wk[w].job[1] EXCEPT !.metadata = metadata]>>,
                                  !.pc = IF ShouldRetry(metadata) THEN "retry" ELSE "dlq"]]
    /\ UNCHANGED <<ev, api, storeVars, nextId, cancelling, hist>>

\* Mutant of EngineSetup: the early cancellation check comes after the
\* container was created.
EngineSetup_CheckAfterCreate(w) ==
    /\ wk[w].pc = "setup"
    /\ \E check_ok \in BOOLEAN,
          setup \in {"ready", "image_or_create_failure", "start_or_write_failure",
                     "compile_error"} :
          /\ wk' = [wk EXCEPT ![w] =
                    IF SeesCancelled(wk[w].job[1].id, check_ok)
                    THEN [@ EXCEPT !.pc = "evaluate",
                                   !.containers = ContainerGuardDrop(ContainerGuardNew(@))]
                    ELSE IF setup = "ready"
                    THEN [@ EXCEPT !.pc = "test",
                                   !.containers = Compiled(ContainerGuardNew(@))]
                    ELSE [@ EXCEPT !.pc = "evaluate",
                                   !.outputs = create_compilation_error_outputs(
                                                   wk[w].job[1].test_cases,
                                                   IF setup = "compile_error"
                                                   THEN compile_in_container(
                                                            1, EmptyStr, CompilerErrorText).stderr
                                                   ELSE DaemonErrorText),
                                   !.containers =
                                       IF setup = "image_or_create_failure" THEN @
                                       ELSE IF setup = "compile_error"
                                       THEN ContainerGuardDrop(Compiled(ContainerGuardNew(@)))
                                       ELSE ContainerGuardDrop(ContainerGuardNew(@))]]
          /\ hist' = IF SeesCancelled(wk[w].job[1].id, check_ok)
                     THEN HistObserve(wk[w].job[1].id) ELSE hist
    /\ UNCHANGED <<ev, api, storeVars, nextId, cancelling>>

\* execute_job_in_single_container up to the test loop: the early
\* cancellation check, then image, container, source and compilation; each
\* failure yields a compilation_failed output for every test case.
EngineSetup(w) ==
    /\ wk[w].pc = "setup"
    /\ \E check_ok \in BOOLEAN,
          setup \in {"ready", "image_or_create_failure", "start_or_write_failure",
                     "compile_error"} :
          /\ wk' = [wk EXCEPT ![w] =
                    IF SeesCancelled(wk[w].job[1].id, check_ok)
                    THEN [@ EXCEPT !.pc = "evaluate"]
                    ELSE IF setup = "ready"
                    THEN [@ EXCEPT !.pc = "test",
                                   !.containers = Compiled(ContainerGuardNew(@))]
                    ELSE [@ EXCEPT !.pc = "evaluate",
                                   !.outputs = create_compilation_error_outputs(
                                                   wk[w].job[1].test_cases,
                                                   IF setup = "compile_error"
                                                   THEN compile_in_container(
                                                            1, EmptyStr, CompilerErrorText).stderr
                                                   ELSE DaemonErrorText),
                                   !.containers =
                                       IF setup = "image_or_create_failure" THEN @
                                       ELSE IF setup = "compile_error"
                                       THEN ContainerGuardDrop(Compiled(ContainerGuardNew(@)))
                                       ELSE ContainerGuardDrop(ContainerGuardNew(@))]]
          /\ hist' = IF SeesCancelled(wk[w].job[1].id, check_ok)
                     THEN HistObserve(wk[w].job[1].id) ELSE hist
    /\ UNCHANGED <<ev, api, storeVars, nextId, cancelling>>

\* Mutant of EngineTest: an Err of the engine ends the test loop.
EngineTest_StopOnError(w) ==
    LET job       == wk[w].job[1]
        idx       == Len(wk[w].outputs) + 1
        test_case == job.test_cases[idx]
        single    == wk[w].mode = "compile_once"
        caps      == CapsViolated(wk[w].mode, job, test_case)
    IN  /\ wk[w].pc = "test"
        /\ \E check_ok \in BOOLEAN,
              run \in (IF caps THEN {NoRun} ELSE ContainerRuns(test_case)) :
           \E created \in (IF caps /\ ~single THEN {FALSE}
                           ELSE IF run.daemon_error /\ ~single THEN BOOLEAN ELSE {TRUE}) :
              /\ wk' = [wk EXCEPT ![w] =
                        IF SeesCancelled(job.id, check_ok)
                        THEN [@ EXCEPT !.pc = "evaluate",
                                       !.containers = IF single THEN ContainerGuardDrop(@) ELSE @]
                        ELSE [@ EXCEPT !.outputs = Append(@, IF caps THEN CapErrorOutput(test_case.id)
                                                                ELSE TestOutputOf(test_case.id, run)),
                                       !.runs = Append(@, run),
                                       !.pc = IF idx = Len(job.test_cases) \/ run.daemon_error THEN "evaluate"
                                                                           ELSE "test",
                                       !.containers =
                                           IF single
                                           THEN IF idx = Len(job.test_cases)
                                                THEN ContainerGuardDrop(@)
                                                ELSE IF run.deadline_passed /\ ~run.daemon_error
                                                     THEN ExecAbandoned(@) ELSE @
                                           ELSE IF created
                                                THEN ContainerGuardDrop(ContainerGuardNew(@))
                                                ELSE @]]
              /\ hist' = IF SeesCancelled(job.id, check_ok) THEN HistObserve(job.id) ELSE hist
        /\ UNCHANGED <<ev, api, storeVars, nextId, cancelling>>

\* One turn of the test loop (execute_job_async, or the loop of
\* execute_job_in_single_container): the cancellation check, then the test.
\* execute_in_container creates a container of its own, unless the daemon
\* fails before create_container, and drops its guard when it returns;
\* execute_job_in_single_container drops the guard of the job's container
\* when it returns, after the last test or at a cancellation.  At a deadline
\* execute_in_container kills its container; execute_test_in_container
\* returns and leaves the process of the exec to itself.  An input over a
\* cap of the engine makes the call return Err at once, which the loop
\* turns into an output like that of any other Err.
EngineTest(w) ==
    LET job       == wk[w].job[1]
        idx       == Len(wk[w].outputs) + 1
        test_case == job.test_cases[idx]
        single    == wk[w].mode = "compile_once"
        caps      == CapsViolated(wk[w].mode, job, test_case)
    IN  /\ wk[w].pc = "test"
        /\ \E check_ok \in BOOLEAN,
              run \in (IF caps THEN {NoRun} ELSE ContainerRuns(test_case)) :
           \E created \in (IF caps /\ ~single THEN {FALSE}
                           ELSE IF run.daemon_error /\ ~single THEN BOOLEAN ELSE {TRUE}) :
              /\ wk' = [wk EXCEPT ![w] =
                        IF SeesCancelled(job.id, check_ok)
                        THEN [@ EXCEPT !.pc = "evaluate",
                                       !.containers = IF single THEN ContainerGuardDrop(@) ELSE @]
                        ELSE [@ EXCEPT !.outputs = Append(@, IF caps THEN CapErrorOutput(test_case.id)
                                                                ELSE TestOutputOf(test_case.id, run)),
                                       !.runs = Append(@, run),
                                       !.pc = IF idx = Len(job.test_cases) THEN "evaluate"
                                                                           ELSE "test",
                                       !.containers =
                                           IF single
                                           THEN IF idx = Len(job.test_cases)
                                                THEN ContainerGuardDrop(@)
                                                ELSE IF run.deadline_passed /\ ~run.daemon_error
                                                     THEN ExecAbandoned(@) ELSE @
                                           ELSE IF created
                                                THEN ContainerGuardDrop(ContainerGuardNew(@))
                                                ELSE @]]
              /\ hist' = IF SeesCancelled(job.id, check_ok) THEN HistObserve(job.id) ELSE hist
        /\ UNCHANGED <<ev, api, storeVars, nextId, cancelling>>

\* Mutant of WorkerEvaluate: a flag set by the time of the evaluation makes
\* the result Cancelled.
WorkerEvaluate_CancelledStatus(w) ==
    /\ wk[w].pc = "evaluate"
    /\ \/ wk' = [wk EXCEPT ![w] =
                    [@ EXCEPT !.pc = "store_result",
                              !.res = <<[evaluate(wk[w].job[1], wk[w].outputs) EXCEPT
                                            !.overall_status =
                                                IF wk[w].job[1].id \in cancelled
                                                THEN "Cancelled" ELSE @]>>]]
       \/ /\ AggregateOverflows(wk[w].outputs, wk[w].job[1])
          /\ wk' = [wk EXCEPT ![w] = [@ EXCEPT !.pc = "panicked"]]
    /\ UNCHANGED <<ev, api, storeVars, nextId, cancelling, hist>>

\* execute_docker, step 3: evaluator::evaluate.  A sum that leaves u32 wraps,
\* or panics in a build with overflow checks and the worker process ends.
WorkerEvaluate(w) ==
    /\ wk[w].pc = "evaluate"
    /\ \/ wk' = [wk EXCEPT ![w] =
                    [@ EXCEPT !.pc = "store_result",
                              !.res = <<evaluate(wk[w].job[1], wk[w].outputs)>>]]
       \/ /\ AggregateOverflows(wk[w].outputs, wk[w].job[1])
          /\ wk' = [wk EXCEPT ![w] = [@ EXCEPT !.pc = "panicked"]]
    /\ UNCHANGED <<ev, api, storeVars, nextId, cancelling, hist>>

\* Mutant of WorkerRetryPush: the push is sent again after its first send.
WorkerRetryPush_Twice(w) ==
    /\ wk[w].pc = "retry"
    /\ \/ /\ retry' = push_job(push_job(retry, wk[w].job[1]), wk[w].job[1])
          /\ hist' = HistPush(wk[w].job[1].id, "retry")
       \/ UNCHANGED <<retry, hist>>
    /\ wk' = [wk EXCEPT ![w] = BackToIdle(@)]
    /\ UNCHANGED <<ev, api, idem, queue, dlq, result, status, cancelled, nextId, cancelling>>

\* push_to_retry_queue; an error is only logged.
WorkerRetryPush(w) ==
    /\ wk[w].pc = "retry"
    /\ \/ /\ retry' = push_job(retry, wk[w].job[1])
          /\ hist' = HistPush(wk[w].job[1].id, "retry")
       \/ UNCHANGED <<retry, hist>>
    /\ wk' = [wk EXCEPT ![w] = BackToIdle(@)]
    /\ UNCHANGED <<ev, api, idem, queue, dlq, result, status, cancelled, nextId, cancelling>>

\* push_to_dlq, its error only logged, then the result of the dead-letter
\* path is built (its max_score is a u32 sum like the evaluator's).
WorkerDlqPush(w) ==
    /\ wk[w].pc = "dlq"
    /\ \/ /\ dlq' = push_job(dlq, wk[w].job[1])
          /\ hist' = HistPush(wk[w].job[1].id, "dlq")
       \/ UNCHANGED <<dlq, hist>>
    /\ \/ wk' = [wk EXCEPT ![w] =
                    [@ EXCEPT !.pc = "store_result", !.res = <<failed_result(wk[w].job[1])>>]]
       \/ /\ SumWeights(wk[w].job[1].test_cases).overflowed
          /\ wk' = [wk EXCEPT ![w] = [@ EXCEPT !.pc = "panicked"]]
    /\ UNCHANGED <<ev, api, idem, queue, retry, result, status, cancelled, nextId, cancelling>>

\* store_result, first SETEX: optimus:result:{job_id}.  On an error the
\* function returns it, worker_loop logs it and goes on to the next job.
StoreResult(w) ==
    /\ wk[w].pc = "store_result"
    /\ \/ /\ result' = SetKey(result, wk[w].res[1].job_id, wk[w].res[1])
          /\ hist' = HistWrite(wk[w].res[1].job_id)
          /\ wk' = [wk EXCEPT ![w] = [@ EXCEPT !.pc = "store_status"]]
       \/ /\ wk' = [wk EXCEPT ![w] = BackToIdle(@)]
          /\ UNCHANGED <<result, hist>>
    /\ UNCHANGED <<ev, api, idem, queue, retry, dlq, status, cancelled, nextId, cancelling>>

\* store_result, second SETEX: optimus:status:{job_id}.
StoreStatus(w) ==
    /\ wk[w].pc = "store_status"
    /\ \/ status' = SetKey(status, wk[w].res[1].job_id, wk[w].res[1].overall_status)
       \/ UNCHANGED status
    /\ wk' = [wk EXCEPT ![w] = BackToIdle(@)]
    /\ UNCHANGED <<ev, api, idem, queue, retry, dlq, result, cancelled, nextId, cancelling, hist>>

\* The task spawned by the drop of a ContainerGuard: remove_container with
\* force; an error is only printed.  The task ends with the worker process.
ContainerRemoval(w) ==
    /\ wk[w].pc \notin {"panicked", "exited"}
    /\ wk[w].containers.removing > 0
    /\ \/ wk' = [wk EXCEPT ![w].containers =
                    [@ EXCEPT !.removing = @ - 1, !.removed = @ + 1]]
       \/ wk' = [wk EXCEPT ![w].containers =
                    [@ EXCEPT !.removing = @ - 1, !.leaked = @ + 1]]
    /\ UNCHANGED <<ev, api, storeVars, nextId, cancelling, hist>>

\* A process left behind by a timed-out exec ends by itself (the user's
\* program returns); one that loops for ever never does.
ProcessExit(w) ==
    /\ wk[w].containers.running > 0
    /\ wk' = [wk EXCEPT ![w].containers = [@ EXCEPT !.running = @ - 1]]
    /\ UNCHANGED <<ev, api, storeVars, nextId, cancelling, hist>>

(***************************************************************************)
(* POST /job/{job_id}/cancel (cancel_job).                                 *)
(***************************************************************************)
\* The job ids handed out so far.
IssuedIds == 1..(nextId - 1)

\* A well-formed job id that submit_job never generated.
UnknownId == 0

\* The calls of cancel_job made for an id: those answered and the one going on.
CancelCalls(id) == Len(HistOf(id).cancel) + (IF id \in cancelling THEN 1 ELSE 0)

\* Mutant of CancelCheck: a job whose flag is already set is answered 409.
CancelCheck_RejectRepeat(id, max_calls) ==
    /\ id \notin cancelling
    /\ CancelCalls(id) < max_calls
    /\ \/ /\ HasKey(result, id) \/ id \in cancelled
          /\ hist' = HistCancel(id, 409)
          /\ UNCHANGED cancelling
       \/ /\ ~HasKey(result, id) /\ id \notin cancelled
          /\ cancelling' = cancelling \cup {id}
          /\ UNCHANGED hist
       \/ /\ hist' = HistCancel(id, 500)
          /\ UNCHANGED cancelling
    /\ UNCHANGED <<ev, api, storeVars, nextId, wk>>

\* cancel_job up to its match on get_result: a stored result is answered
\* 409; with no result the handler goes on to the flag; a store error is
\* answered 500.
CancelCheck(id, max_calls) ==
    /\ id \notin cancelling
    /\ CancelCalls(id) < max_calls
    /\ \/ /\ HasKey(result, id)
          /\ hist' = HistCancel(id, 409)
          /\ UNCHANGED cancelling
       \/ /\ ~HasKey(result, id)
          /\ cancelling' = cancelling \cup {id}
          /\ UNCHANGED hist
       \/ /\ hist' = HistCancel(id, 500)
          /\ UNCHANGED cancelling
    /\ UNCHANGED <<ev, api, storeVars, nextId, wk>>

\* A worker holds the job and its engine has returned: every cancellation
\* check of the run, that of the final test included, is behind it.
PastFinalCheck(id) ==
    \E w \in DOMAIN wk :
        /\ wk[w].job # <<>> /\ wk[w].job[1].id = id
        /\ wk[w].pc \in {"evaluate", "store_result", "store_status"}
        /\ Len(wk[w].outputs) = Len(wk[w].job[1].test_cases)

\* set_job_cancelled: the flag is written (200), or the store fails (500).
CancelSet(id) ==
    /\ id \in cancelling
    /\ cancelling' = cancelling \ {id}
    /\ \/ /\ cancelled' = cancelled \cup {id}
          /\ hist' = HistFlag(id, PastFinalCheck(id))
       \/ /\ UNCHANGED cancelled
          /\ hist' = HistCancel(id, 500)
    /\ UNCHANGED <<ev, api, idem, queue, retry, dlq, result, status, nextId, wk>>

(***************************************************************************)
(* GET /job/{job_id} (get_job_result).                                     *)
(***************************************************************************)
\* The answers of get_job_result: the result (200), pending (202), or
\* INTERNAL_ERROR (500).
QueryAnswer(http, body) == [http |-> http, body |-> body]

\* Mutant of get_job_result: a store error is answered as pending.
get_job_result_PendingOnError(id, max_queries) ==
    /\ Len(HistOf(id).queries) < max_queries
    /\ \/ /\ HasKey(result, id)
          /\ hist' = HistQuery(id, QueryAnswer(200, <<result[id]>>))
       \/ /\ ~HasKey(result, id)
          /\ hist' = HistQuery(id, QueryAnswer(202, <<>>))
       \/ hist' = HistQuery(id, QueryAnswer(202, <<>>))
    /\ UNCHANGED <<ev, api, storeVars, nextId, wk, cancelling>>

\* get_job_result: the match on redis::get_result.
get_job_result(id, max_queries) ==
    /\ Len(HistOf(id).queries) < max_queries
    /\ \/ /\ HasKey(result, id)
          /\ hist' = HistQuery(id, QueryAnswer(200, <<result[id]>>))
       \/ /\ ~HasKey(result, id)
          /\ hist' = HistQuery(id, QueryAnswer(202, <<>>))
       \/ hist' = HistQuery(id, QueryAnswer(500, <<>>))
    /\ UNCHANGED <<ev, api, storeVars, nextId, wk, cancelling>>

(***************************************************************************)
(* Spec: the API, the store, the workers and the cancel handler together.  *)
(***************************************************************************)
\* The bodies submitted: one test of default weight; two tests whose
\* weights, 2^32 - 1 and 1, sum past u32.
JobBodies ==
    { SubmitBody("python", Str("a"), <<TcSmall>>, <<>>),
      SubmitBody("python", Str("a"),
                 <<TestCaseInput(Str("1"), Str("1"), <<U32Max>>),
                   TestCaseInput(Str("2"), Str("2"), <<U32(0, 1)>>)>>, <<>>) }

MaxJobs == 1

\* The submissions of Spec.
JobSlots == 1..MaxJobs

Init ==
    /\ api = [r \in JobSlots |-> NoRequest]
    /\ idem = [k \in Keys |-> <<>>]
    /\ queue = NoQueues /\ retry = NoQueues /\ dlq = NoQueues
    /\ result = <<>> /\ status = <<>> /\ cancelled = {}
    /\ nextId = 1
    /\ \E mode \in ExecutionModes : wk = [w \in Workers |-> IdleWorker(mode)]
    /\ cancelling = {}
    /\ hist = <<>>
    /\ ev = <<>>

\* Submissions without an Idempotency-Key header.
Submit == \E r \in JobSlots : SubmitArrive(r, {<<>>}, JobBodies)

Enqueue == \E r \in JobSlots : SubmitPush(r)

Pop == \E w \in Workers : WorkerPop(w)

Connect == \E w \in Workers : EngineNew(w)

Setup == \E w \in Workers : EngineSetup(w)

Test == \E w \in Workers : EngineTest(w)

Evaluate == \E w \in Workers : WorkerEvaluate(w)

RetryPush == \E w \in Workers : WorkerRetryPush(w)

DlqPush == \E w \in Workers : WorkerDlqPush(w)

PersistResult == \E w \in Workers : StoreResult(w)

PersistStatus == \E w \in Workers : StoreStatus(w)

\* One cancel call for each job id handed out.
CancelRequest == \E id \in IssuedIds : CancelCheck(id, 1)

CancelWrite == \E id \in cancelling : CancelSet(id)

Cleanup == \E w \in Workers : ContainerRemoval(w)

ProcessEnds == \E w \in Workers : ProcessExit(w)

Next ==
    \/ Submit \/ Enqueue
    \/ Pop \/ Connect \/ Setup \/ Test \/ Evaluate
    \/ RetryPush \/ DlqPush \/ PersistResult \/ PersistStatus
    \/ CancelRequest \/ CancelWrite
    \/ Cleanup \/ ProcessEnds

Spec == Init /\ [][Next]_vars

\* The worker loop keeps running: each of its steps is taken when it stays
\* possible.  Nothing is asked of the clients, of the store or of the daemon.
WorkerNext ==
    \/ Pop \/ Connect \/ Setup \/ Test \/ Evaluate
    \/ RetryPush \/ DlqPush \/ PersistResult \/ PersistStatus

FairSpec == Spec /\ WF_vars(WorkerNext) /\ WF_vars(Enqueue) /\ WF_vars(Cleanup)

(***************************************************************************)
(* SpecShutdown: Spec with the shutdown signal of the worker process.      *)
(***************************************************************************)
\* The positions at which worker_loop waits on an awaited call (the pop, the
\* calls of the engine to the daemon, the pushes and the writes to the
\* store): where tokio::select! can take its other branch.
AwaitPoints == {"idle", "setup", "test", "retry", "dlq", "store_result", "store_status"}

\* main: ctrl_c completes, select! takes the shutdown branch and drops the
\* future of worker_loop where it waits; main returns and the process ends
\* with the job the loop held.
ShutdownSignal(w) ==
    /\ wk[w].pc \in AwaitPoints
    /\ wk' = [wk EXCEPT ![w] = [@ EXCEPT !.pc = "exited"]]
    /\ UNCHANGED <<ev, api, storeVars, nextId, cancelling, hist>>

Shutdown == \E w \in Workers : ShutdownSignal(w)

ShutdownNext == Next \/ Shutdown

SpecShutdown == Init /\ [][ShutdownNext]_vars

(***************************************************************************)
(* SpecCancel: Spec with repeated cancel calls, also for an unknown id.    *)
(***************************************************************************)
MaxCancelCalls == 2

\* The body submitted: one test of default weight.
CancelJobBodies == { SubmitBody("python", Str("a"), <<TcSmall>>, <<>>) }

CancelSubmit == \E r \in JobSlots : SubmitArrive(r, {<<>>}, CancelJobBodies)

CancelAny == \E id \in IssuedIds \cup {UnknownId} : CancelCheck(id, MaxCancelCalls)

CancelNext ==
    \/ CancelSubmit \/ Enqueue
    \/ Pop \/ Connect \/ Setup \/ Test \/ Evaluate
    \/ RetryPush \/ DlqPush \/ PersistResult \/ PersistStatus
    \/ CancelAny \/ CancelWrite
    \/ Cleanup

SpecCancel == Init /\ [][CancelNext]_vars

(***************************************************************************)
(* SpecEngine: a worker and the jobs it can find on its queue, those       *)
(* over the input caps of the engine included (submit_job admits none of   *)
(* them; the worker runs whatever job the list holds).                     *)
(***************************************************************************)
TcOf(id, input) == TestCase(id, input, Str("1"), default_weight)

\* A job of two tests within the caps, jobs with a source of exactly and of
\* more than MAX_SOURCE_CODE_BYTES, jobs with a second input of exactly and
\* of more than MAX_TEST_INPUT_BYTES.
EngineJobs ==
    { JobRequest(1, "python", Str("a"), <<TcOf(1, Str("1")), TcOf(2, Str("2"))>>, 5000),
      JobRequest(1, "python", Bytes(MAX_SOURCE_CODE_BYTES), <<TcOf(1, Str("1"))>>, 5000),
      JobRequest(1, "python", Bytes(MAX_SOURCE_CODE_BYTES + 1), <<TcOf(1, Str("1"))>>, 5000),
      JobRequest(1, "python", Str("a"),
                 <<TcOf(1, Str("1")), TcOf(2, Bytes(MAX_TEST_INPUT_BYTES))>>, 5000),
      JobRequest(1, "python", Str("a"),
                 <<TcOf(1, Str("1")), TcOf(2, Bytes(MAX_TEST_INPUT_BYTES + 1))>>, 5000) }

EngineInit ==
    /\ \E job \in EngineJobs : queue = push_job(NoQueues, job)
    /\ retry = NoQueues /\ dlq = NoQueues
    /\ api = <<>>
    /\ idem = [k \in Keys |-> <<>>]
    /\ result = <<>> /\ status = <<>> /\ cancelled = {}
    /\ nextId = 2
    /\ \E mode \in ExecutionModes : wk = [w \in Workers |-> IdleWorker(mode)]
    /\ cancelling = {}
    /\ hist = <<>>
    /\ ev = <<>>

EngineNext == WorkerNext \/ Cleanup \/ ProcessEnds

SpecEngine == EngineInit /\ [][EngineNext]_vars

(***************************************************************************)
(* SpecClassify: the outputs of the engine as a function of what the       *)
(* daemon and the container did.                                           *)
(***************************************************************************)
\* The exit code the engine reads: none (unknown), 0, or 1.
ClassifyExitCodes == {<<>>, <<0>>, <<1>>}

\* The runs of one test: a daemon error, a run past the deadline, or an exit
\* before the deadline, each with any exit code and streams.
ClassifyRuns ==
    { run \in { ContainerRun(d, t, code, out, err) :
                   d \in BOOLEAN, t \in BOOLEAN, code \in ClassifyExitCodes,
                   out \in {EmptyStr, Str("x")}, err \in {EmptyStr, Str("e")} } :
        ~(run.daemon_error /\ run.deadline_passed) }

\* The places of the engine that make an output: the match on the result of
\* a test, the guardrail of the input caps, a failed compilation.
ClassifyKinds == {"test", "cap", "compile_error"}

ClassifyInit ==
    /\ \E kind \in ClassifyKinds, test_id \in 1..2, run \in ClassifyRuns :
           ev = [phase |-> "input", kind |-> kind, test_id |-> test_id, run |-> run,
                 output |-> <<>>]
    /\ api = <<>> /\ idem = <<>> /\ queue = <<>> /\ retry = <<>> /\ dlq = <<>>
    /\ result = <<>> /\ status = <<>> /\ cancelled = {} /\ nextId = 1
    /\ wk = <<>> /\ cancelling = {} /\ hist = <<>>

ClassifyApply ==
    /\ ev.phase = "input"
    /\ ev' = [ev EXCEPT
                !.phase = "done",
                !.output =
                    <<CASE ev.kind = "test" -> TestOutputOf(ev.test_id, ev.run)
                        [] ev.kind = "cap" -> CapErrorOutput(ev.test_id)
                        [] ev.kind = "compile_error" ->
                              create_compilation_error_outputs(
                                  <<TcOf(ev.test_id, Str("1"))>>, CompilerErrorText)[1]>>]
    /\ UNCHANGED restOfEval

ClassifyNext == ClassifyApply

SpecClassify == ClassifyInit /\ [][ClassifyNext]_vars

(***************************************************************************)
(* SpecQuery: Spec with status queries for the job ids handed out.         *)
(***************************************************************************)
MaxQueries == 2

StatusQuery == \E id \in IssuedIds : get_job_result(id, MaxQueries)

QueryNext == Next \/ StatusQuery

SpecQuery == Init /\ [][QueryNext]_vars

(***************************************************************************)
(* SpecQueue: several submissions and several workers of one language on   *)
(* the main and the retry queue; no cancel calls.                          *)
(***************************************************************************)
MaxQueueJobs == 2

QueueSlots == 1..MaxQueueJobs

\* The worker processes of the language.
QueueWorkers == {"w1"}

\* The body submitted: one test of default weight.
QueueJobBodies == { SubmitBody("python", Str("a"), <<TcSmall>>, <<>>) }

QueueInit ==
    /\ api = [r \in QueueSlots |-> NoRequest]
    /\ idem = [k \in Keys |-> <<>>]
    /\ queue = NoQueues /\ retry = NoQueues /\ dlq = NoQueues
    /\ result = <<>> /\ status = <<>> /\ cancelled = {}
    /\ nextId = 1
    /\ \E mode \in ExecutionModes : wk = [w \in QueueWorkers |-> IdleWorker(mode)]
    /\ cancelling = {}
    /\ hist = <<>>
    /\ ev = <<>>

QueueSubmit == \E r \in QueueSlots : SubmitArrive(r, {<<>>}, QueueJobBodies)

QueueEnqueue == \E r \in QueueSlots : SubmitPush(r)

QueuePop == \E w \in QueueWorkers : WorkerPop(w)

QueueConnect == \E w \in QueueWorkers : EngineNew(w)

QueueSetup == \E w \in QueueWorkers : EngineSetup(w)

QueueTest == \E w \in QueueWorkers : EngineTest(w)

QueueEvaluate == \E w \in QueueWorkers : WorkerEvaluate(w)

QueueRetryPush == \E w \in QueueWorkers : WorkerRetryPush(w)

QueueDlqPush == \E w \in QueueWorkers : WorkerDlqPush(w)

QueuePersistResult == \E w \in QueueWorkers : StoreResult(w)

QueuePersistStatus == \E w \in QueueWorkers : StoreStatus(w)

QueueCleanup == \E w \in QueueWorkers : ContainerRemoval(w)

QueueNext ==
    \/ QueueSubmit \/ QueueEnqueue
    \/ QueuePop \/ QueueConnect \/ QueueSetup \/ QueueTest \/ QueueEvaluate
    \/ QueueRetryPush \/ QueueDlqPush \/ QueuePersistResult \/ QueuePersistStatus
    \/ QueueCleanup

SpecQueue == QueueInit /\ [][QueueNext]_vars

(***************************************************************************)
(* SpecPool: a pool of worker processes of one language on the same        *)
(* queues; no cancel calls.                                                *)
(***************************************************************************)
MaxPoolJobs == 1

PoolSlots == 1..MaxPoolJobs

\* The worker processes of the pool.
PoolWorkers == {"w1", "w2"}

PoolInit ==
    /\ api = [r \in PoolSlots |-> NoRequest]
    /\ idem = [k \in Keys |-> <<>>]
    /\ queue = NoQueues /\ retry = NoQueues /\ dlq = NoQueues
    /\ result = <<>> /\ status = <<>> /\ cancelled = {}
    /\ nextId = 1
    /\ \E mode \in ExecutionModes : wk = [w \in PoolWorkers |-> IdleWorker(mode)]
    /\ cancelling = {}
    /\ hist = <<>>
    /\ ev = <<>>

PoolSubmit == \E r \in PoolSlots : SubmitArrive(r, {<<>>}, QueueJobBodies)

PoolEnqueue == \E r \in PoolSlots : SubmitPush(r)

PoolPop == \E w \in PoolWorkers : WorkerPop(w)

PoolConnect == \E w \in PoolWorkers : EngineNew(w)

PoolSetup == \E w \in PoolWorkers : EngineSetup(w)

PoolTest == \E w \in PoolWorkers : EngineTest(w)

PoolEvaluate == \E w \in PoolWorkers : WorkerEvaluate(w)

PoolRetryPush == \E w \in PoolWorkers : WorkerRetryPush(w)

PoolDlqPush == \E w \in PoolWorkers : WorkerDlqPush(w)

PoolPersistResult == \E w \in PoolWorkers : StoreResult(w)

PoolPersistStatus == \E w \in PoolWorkers : StoreStatus(w)

PoolCleanup == \E w \in PoolWorkers : ContainerRemoval(w)

PoolNext ==
    \/ PoolSubmit \/ PoolEnqueue
    \/ PoolPop \/ PoolConnect \/ PoolSetup \/ PoolTest \/ PoolEvaluate
    \/ PoolRetryPush \/ PoolDlqPush \/ PoolPersistResult \/ PoolPersistStatus
    \/ PoolCleanup

SpecPool == PoolInit /\ [][PoolNext]_vars

(***************************************************************************)
(* Properties of the evaluator, checked under SpecEval.                    *)
(***************************************************************************)
AnyFlag(o) == o.runtime_error \/ o.timed_out \/ o.compilation_failed

HasNonWhitespace(s) == \E i \in 1..Len(s) : ~IsWhitespace(s[i].c)

\* The weights of the test cases in `ids`, added modulo 2^32 in test-case order.
RECURSIVE WeightOf(_, _)
WeightOf(test_cases, ids) ==
    IF test_cases = <<>> THEN U32Zero
    ELSE LET n    == Len(test_cases)
             rest == WeightOf(SubSeq(test_cases, 1, n - 1), ids)
         IN  IF n \in ids THEN WrappingAdd(rest, test_cases[n].weight) ELSE rest

EvalDone == ev.phase = "done"

EvalResult == ev.result[1]

\* C1: a test whose output has runtime_error, timed_out or compilation_failed
\* set is never Passed, whatever its stdout and stderr hold, and it adds
\* nothing to the score: the score is made of the weights of the flag-free
\* Passed tests alone.
C1_FlaggedNeverPassed ==
    EvalDone =>
        /\ \A i \in 1..Len(ev.outputs) :
               AnyFlag(ev.outputs[i]) => EvalResult.results[i].status # "Passed"
        /\ EvalResult.score =
               WeightOf(ev.job[1].test_cases,
                        { i \in 1..Len(ev.outputs) :
                            ~AnyFlag(ev.outputs[i]) /\ EvalResult.results[i].status = "Passed" })

\* Witness of C1: a flagged output whose stdout equals the expected output
\* and whose stderr is empty was evaluated beside a passing one, and only
\* the passing one's weight is in the score.
C1_Witness ==
    /\ EvalDone
    /\ Len(ev.outputs) = 2
    /\ ev.outputs[1].runtime_error /\ ~ev.outputs[1].timed_out /\ ~ev.outputs[1].compilation_failed
    /\ ev.outputs[1].stdout = ev.job[1].test_cases[1].expected_output
    /\ ev.outputs[1].stderr = EmptyStr
    /\ EvalResult.results[1].status = "RuntimeError"
    /\ EvalResult.results[2].status = "Passed"
    /\ ev.job[1].test_cases[1].weight = U32(0, 10)
    /\ EvalResult.score = U32(0, 10)

\* The status the precedence table of the claim gives.
TableStatus(o, tc) ==
    CASE o.compilation_failed -> "RuntimeError"
      [] ~o.compilation_failed /\ o.runtime_error -> "RuntimeError"
      [] ~o.compilation_failed /\ ~o.runtime_error /\ o.timed_out -> "TimeLimitExceeded"
      [] ~AnyFlag(o) /\ HasNonWhitespace(o.stderr) -> "Failed"
      [] ~AnyFlag(o) /\ ~HasNonWhitespace(o.stderr)
            /\ Trim(o.stdout) = Trim(tc.expected_output) -> "Passed"
      [] OTHER -> "Failed"

\* C2: the status of every test follows the precedence table, first match
\* first: compilation_failed, runtime_error, timed_out, stderr with
\* non-whitespace content, then the comparison of the trimmed outputs.
C2_StatusPrecedence ==
    EvalDone =>
        \A i \in 1..Len(ev.outputs) :
            /\ EvalResult.results[i].test_id = ev.outputs[i].test_id
            /\ EvalResult.results[i].status = TableStatus(ev.outputs[i], ev.job[1].test_cases[i])

\* Witness of C2: runtime_error and timed_out both set gave RuntimeError, and
\* a padded stdout beside whitespace-only stderr passed.
C2_Witness ==
    /\ EvalDone
    /\ Len(ev.outputs) = 2
    /\ ev.outputs[1].runtime_error /\ ev.outputs[1].timed_out /\ ~ev.outputs[1].compilation_failed
    /\ EvalResult.results[1].status = "RuntimeError"
    /\ ~AnyFlag(ev.outputs[2])
    /\ ev.outputs[2].stderr # EmptyStr /\ ~HasNonWhitespace(ev.outputs[2].stderr)
    /\ EvalResult.results[2].status = "Passed"

Arrives(r) == api[r].pc = "idle" /\ api'[r].pc # "idle"

ArrivingKey(r) == api'[r].key[1]

ArrivingJson(r) == payload_json(api'[r].payload[1])

ResponseOf(r) == api[r].response[1]

C7_ConflictAlways ==
    [][\A r \in Requests :
          ( /\ Arrives(r)
            /\ api'[r].key # <<>>
            /\ idem[ArrivingKey(r)] # <<>>
            /\ idem[ArrivingKey(r)][1].payload # ArrivingJson(r) )
          => /\ api'[r].pc = "done"
             /\ api'[r].response[1].code = "IDEMPOTENCY_CONFLICT"
             /\ UNCHANGED storeVars]_vars

\* C7, amended: such a submission is answered at once and changes no queue
\* and no record when its language is not enabled (LANGUAGE_NOT_SUPPORTED)
\* or when its lookup of the record succeeds (IDEMPOTENCY_CONFLICT, HTTP 409).
C7_ConflictWhenRecordSeen ==
    [][\A r \in Requests :
          ( /\ Arrives(r)
            /\ api'[r].key # <<>>
            /\ idem[ArrivingKey(r)] # <<>>
            /\ idem[ArrivingKey(r)][1].payload # ArrivingJson(r)
            /\ \/ api'[r].payload[1].language \notin EnabledLanguages
               \/ api'[r].lookup # "error" )
          => /\ api'[r].pc = "done"
             /\ api'[r].response =
                   IF api'[r].payload[1].language \notin EnabledLanguages
                   THEN <<Rejected(422, "LANGUAGE_NOT_SUPPORTED")>>
                   ELSE <<Rejected(409, "IDEMPOTENCY_CONFLICT")>>
             /\ UNCHANGED <<storeVars, hist>>]_vars

\* Witness of C7: a submission was answered IDEMPOTENCY_CONFLICT while the
\* record of its key holds another payload and the job id of the request
\* that stored it, the only job queued.
C7_Witness ==
    \E r \in Requests, p \in Requests :
        /\ p # r
        /\ api[p].pc = "done" /\ api[p].recorded
        /\ api[r].pc = "done" /\ api[r].lookup = "found"
        /\ api[r].key = api[p].key
        /\ ResponseOf(r) = Rejected(409, "IDEMPOTENCY_CONFLICT")
        /\ idem[api[r].key[1]] =
              <<[job_id |-> api[p].job_id[1], payload |-> payload_json(api[p].payload[1])]>>
        /\ payload_json(api[r].payload[1]) # payload_json(api[p].payload[1])
        /\ Len(queue["python"]) = 1

\* The admission rules, as the claim lists them.
LanguageRule(p) == p.language \in EnabledLanguages

CountRules(p) == 1 <= Len(p.test_cases) /\ Len(p.test_cases) <= 100

SourceRules(p) ==
    /\ \E i \in 1..Len(p.source_code) : p.source_code[i].c \notin Whitespace
    /\ ByteLen(p.source_code) <= 256000

InputRule(p) == \A i \in 1..Len(p.test_cases) : ByteLen(p.test_cases[i].input) <= 64000

OutputRule(p) ==
    \A i \in 1..Len(p.test_cases) : ByteLen(p.test_cases[i].expected_output) <= 64000

TimeoutRule(p) == 1 <= p.timeout_ms /\ p.timeout_ms <= 60000

AllRulesHold(p) ==
    /\ LanguageRule(p) /\ CountRules(p) /\ SourceRules(p)
    /\ InputRule(p) /\ OutputRule(p) /\ TimeoutRule(p)

\* The error codes of the rules a payload violates.
ViolatedCodes(p) ==
    (IF LanguageRule(p) THEN {} ELSE {"LANGUAGE_NOT_SUPPORTED"})
    \cup (IF Len(p.test_cases) >= 1 THEN {} ELSE {"NO_TEST_CASES"})
    \cup (IF Len(p.test_cases) <= 100 THEN {} ELSE {"TOO_MANY_TEST_CASES"})
    \cup (IF ByteLen(p.source_code) <= 256000 THEN {} ELSE {"SOURCE_CODE_TOO_LARGE"})
    \cup (IF \E i \in 1..Len(p.source_code) : p.source_code[i].c \notin Whitespace
          THEN {} ELSE {"EMPTY_SOURCE_CODE"})
    \cup (IF InputRule(p) THEN {} ELSE {"TEST_CASE_INPUT_TOO_LARGE"})
    \cup (IF OutputRule(p) THEN {} ELSE {"TEST_CASE_OUTPUT_TOO_LARGE"})
    \cup (IF TimeoutRule(p) THEN {} ELSE {"INVALID_TIMEOUT"})

\* The job of request r is appended to the queue of its language and to no other.
EnqueuesJobOf(r) ==
    LET l   == api[r].payload[1].language
        job == queue'[l][Len(queue[l]) + 1]
    IN  /\ Len(queue'[l]) = Len(queue[l]) + 1
        /\ queue' = [queue EXCEPT ![l] = Append(@, job)]
        /\ job.id = api[r].job_id[1]
        /\ job.source_code = api[r].payload[1].source_code
        /\ Len(job.test_cases) = Len(api[r].payload[1].test_cases)

\* A submission arriving without a record: rejected at once with the code of
\* a rule it violates and no effect, or on its way to the queue push.
C8_Arrival(r) ==
    ( /\ Arrives(r)
      /\ api'[r].key = <<>> \/ idem[ArrivingKey(r)] = <<>> )
    => /\ UNCHANGED storeVars
       /\ IF AllRulesHold(api'[r].payload[1])
          THEN api'[r].pc = "push"
          ELSE /\ api'[r].pc = "done"
               /\ api'[r].response[1].code \in ViolatedCodes(api'[r].payload[1])

\* Only the push of a submission that meets every rule changes a queue.
C8_OnlyAdmittedEnqueued ==
    queue' # queue =>
        \E r \in Requests :
            /\ api[r].pc = "push"
            /\ AllRulesHold(api[r].payload[1])
            /\ EnqueuesJobOf(r)

\* C8 as stated: a submission without a record is enqueued if and only if it
\* meets every admission rule; one that violates a rule is rejected with the
\* code of a violated rule and changes no queue and no record.
C8_EnqueuedIffRulesHold ==
    [][/\ \A r \in Requests : C8_Arrival(r)
       /\ C8_OnlyAdmittedEnqueued
       /\ \A r \in Requests :
             (api[r].pc = "push" /\ api'[r].pc # "push") => EnqueuesJobOf(r)]_vars

\* C8, amended: a submission without a record is enqueued if and only if it
\* meets every admission rule and the store accepts the push; when the push
\* fails it is answered QUEUE_FAILURE (HTTP 500) and no queue and no record
\* changes; one that violates a rule is rejected with the code of a violated
\* rule and changes no queue and no record.
C8_EnqueuedIffRulesHoldAndPushed ==
    [][/\ \A r \in Requests : C8_Arrival(r)
       /\ C8_OnlyAdmittedEnqueued
       /\ \A r \in Requests :
             (api[r].pc = "push" /\ api'[r].pc # "push") =>
                 \/ /\ EnqueuesJobOf(r)
                    /\ UNCHANGED <<idem, retry, dlq>>
                    /\ api'[r].pc = "record" \/ api'[r].response = <<Accepted(api[r].job_id[1])>>
                 \/ /\ UNCHANGED storeVars
                    /\ api'[r].response = <<Rejected(500, "QUEUE_FAILURE")>>]_vars

\* Witness of C8: with no record stored, the body at every upper limit was
\* enqueued, a body with several broken rules was rejected with one of their
\* codes, and nothing else is queued.
C8_Witness ==
    \E r \in Requests, p \in Requests :
        /\ api[r].pc = "done" /\ api[p].pc = "done"
        /\ api[r].payload = <<SubmitRequest(BodyAtLimits)>>
        /\ ResponseOf(r) = Accepted(api[r].job_id[1])
        /\ queue["python"] = <<BuildJob(api[r].job_id[1], api[r].payload[1])>>
        /\ ~AllRulesHold(api[p].payload[1])
        /\ Cardinality(ViolatedCodes(api[p].payload[1])) > 1
        /\ ResponseOf(p).code \in ViolatedCodes(api[p].payload[1])
        /\ \A k \in Keys : idem[k] = <<>>

(***************************************************************************)
(* Properties of the worker, checked under Spec and FairSpec.              *)
(***************************************************************************)
\* The job built for a job id, from the request that drew the id.
JobOfId(id) ==
    LET r == CHOOSE q \in DOMAIN api : api[q].job_id = <<id>>
    IN  BuildJob(id, api[r].payload[1])

\* The sum over the test cases in `ids` of limb k of their weights.
RECURSIVE LimbSum(_, _, _)
LimbSum(test_cases, ids, k) ==
    IF test_cases = <<>> THEN 0
    ELSE LET n == Len(test_cases)
         IN  LimbSum(SubSeq(test_cases, 1, n - 1), ids, k)
             + (IF n \in ids THEN test_cases[n].weight[k] ELSE 0)

\* The sum of the weights of the test cases in `ids` as an integer of three
\* limbs, the first being the part past 32 bits.
ExactSum(test_cases, ids) ==
    LET lo == LimbSum(test_cases, ids, 2)
        hi == LimbSum(test_cases, ids, 1) + (lo \div Limb)
    IN  <<hi \div Limb, hi % Limb, lo % Limb>>

Exact(u) == <<0, u[1], u[2]>>

PassedIds(res) == { res.results[i].test_id : i \in { j \in 1..Len(res.results) :
                                                       res.results[j].status = "Passed" } }

\* C3: every stored ExecutionResult has max_score equal to the sum of the
\* weights of all the job's test cases, score equal to the sum of the
\* weights of the test cases whose TestResult is Passed, and
\* 0 <= score <= max_score.
C3_StoredScores ==
    \A id \in DOMAIN result :
        LET res == result[id]
            job == JobOfId(id)
        IN  /\ Exact(res.max_score) = ExactSum(job.test_cases, 1..Len(job.test_cases))
            /\ Exact(res.score) = ExactSum(job.test_cases, PassedIds(res))
            /\ U32Le(U32Zero, res.score) /\ U32Le(res.score, res.max_score)

Enqueued(id) == HistOf(id).pushes > 0

\* C5: every job whose enqueue succeeded eventually has an ExecutionResult
\* stored, whatever fails, as long as the worker loop keeps running.
C5_EventuallyResult ==
    \A id \in JobSlots : (Enqueued(id) ~> HasKey(result, id))

\* The step in which worker w leaves position pc.
Leaves(w, pc) == wk[w].pc = pc /\ wk'[w].pc # pc

\* C9: when the execution of a dequeued job fails with an infrastructure
\* error the worker adds exactly one to attempts and records the reason;
\* then, when attempts < max_attempts, the job is pushed to the retry queue
\* and no result is written; otherwise the job is pushed to the dead-letter
\* queue and a result with overall_status Failed and score 0 is written.
C9_FailureHandling ==
    [][\A w \in Workers :
          LET job  == wk[w].job[1]
              l    == job.language
              meta == job.metadata
          IN  /\ (Leaves(w, "engine") /\ wk'[w].pc \in {"retry", "dlq"}) =>
                    /\ wk'[w].job[1].metadata.attempts = meta.attempts + 1
                    /\ wk'[w].job[1].metadata.last_failure_reason # "none"
                    /\ wk'[w].job[1].metadata.max_attempts = meta.max_attempts
                    /\ wk'[w].pc = "retry" <=> meta.attempts + 1 < meta.max_attempts
              /\ Leaves(w, "retry") =>
                    /\ retry' = [retry EXCEPT ![l] = Append(@, job)]
                    /\ UNCHANGED <<result, status, dlq>>
              /\ Leaves(w, "dlq") =>
                    /\ dlq' = [dlq EXCEPT ![l] = Append(@, job)]
                    /\ wk'[w].pc = "store_result"
              /\ (Leaves(w, "store_result") /\ ~ShouldRetry(meta) /\ meta.attempts > 0) =>
                    /\ HasKey(result', job.id)
                    /\ result'[job.id].overall_status = "Failed"
                    /\ result'[job.id].score = U32Zero]_vars

\* C10: for each job id at most one ExecutionResult is written and at most
\* max_attempts + 1 queue pushes are made (the enqueue, the retry pushes and
\* the dead-letter push).
C10_WritesAndPushesCapped ==
    \A id \in DOMAIN hist :
        /\ hist[id].writes <= 1
        /\ hist[id].pushes <= JobOfId(id).metadata.max_attempts + 1

\* Witness of C10: a job failed max_attempts times: enqueued once, retried
\* twice, dead-lettered, and its one result is stored.
C10_Witness ==
    \E id \in DOMAIN hist :
        /\ hist[id].pushes = DefaultMaxAttempts + 1
        /\ hist[id].writes = 1
        /\ Len(dlq["python"]) = 1
        /\ dlq["python"][1].id = id
        /\ dlq["python"][1].metadata.attempts = DefaultMaxAttempts
        /\ HasKey(result, id)

\* The outputs the worker holds show a failure of the user's code.
UserCodeFailure(w) ==
    \E i \in 1..Len(wk[w].outputs) :
        /\ AnyFlag(wk[w].outputs[i])
        /\ wk[w].outputs[i].stderr # DaemonErrorText

\* C11: a job whose execution ended in a user-code failure (compile error,
\* runtime error or timeout in a test) is terminal: the worker writes its
\* ExecutionResult, leaves attempts as it is and pushes the job neither to
\* the retry queue nor to the dead-letter queue.
C11_UserFailureTerminal ==
    [][\A w \in Workers :
          (wk[w].pc \in {"evaluate", "store_result", "store_status"} /\ UserCodeFailure(w)) =>
             /\ UNCHANGED <<queue, retry, dlq>>
             /\ wk'[w].job # <<>> => wk'[w].job[1].metadata = wk[w].job[1].metadata
             /\ Leaves(w, "evaluate") => wk'[w].pc = "store_result"
             /\ Leaves(w, "store_result") =>
                   /\ HasKey(result', wk[w].job[1].id)
                   /\ result'[wk[w].job[1].id] = wk[w].res[1]]_vars

\* A container-daemon call fails in this step of worker w: an output carrying
\* the engine's error text appears.
DaemonCallFails(w) ==
    /\ wk[w].pc \in {"setup", "test"}
    /\ \E i \in 1..Len(wk'[w].outputs) :
          /\ i > Len(wk[w].outputs)
          /\ wk'[w].outputs[i].stderr = DaemonErrorText

\* C12: when an image pull, a container creation, a container start or
\* another container-daemon call fails while a worker processes a job, the
\* failure is handled as an infrastructure failure: attempts is incremented
\* and the job goes to the retry or dead-letter path; no per-test output is
\* made of it.
C12_DaemonFailureRequeues ==
    [][\A w \in Workers :
          DaemonCallFails(w) =>
             /\ wk'[w].pc \in {"retry", "dlq"}
             /\ wk'[w].job[1].metadata.attempts = wk[w].job[1].metadata.attempts + 1]_vars

\* An engine read the cancellation flag of job id as set.
Observed(id) == HistOf(id).observed

\* The results are those of the first Len(results) test cases, in order.
ResultsOfFirstTests(res, job) ==
    /\ Len(res.results) <= Len(job.test_cases)
    /\ \A i \in 1..Len(res.results) : res.results[i].test_id = job.test_cases[i].id

\* C13: when a worker observed the cancellation flag of a job before writing
\* the job's result, the stored ExecutionResult has overall_status Cancelled
\* and holds the results of the tests executed so far.
C13_CancelledStatus ==
    \A id \in DOMAIN result :
        Observed(id) =>
            /\ result[id].overall_status = "Cancelled"
            /\ ResultsOfFirstTests(result[id], JobOfId(id))

\* a <= b for integers of three limbs.
ExactLe(a, b) ==
    \/ a[1] < b[1]
    \/ a[1] = b[1] /\ a[2] < b[2]
    \/ a[1] = b[1] /\ a[2] = b[2] /\ a[3] <= b[3]

\* The test loop of worker w takes a turn in this step.
LoopTurn(w) ==
    /\ wk[w].pc = "test"
    /\ wk'[w].pc # wk[w].pc \/ wk'[w].outputs # wk[w].outputs

\* The engine of worker w stops in this step: no test is run, the outputs
\* made so far are returned.
EngineStops(w) == wk'[w].pc = "evaluate" /\ wk'[w].outputs = wk[w].outputs

\* The engine of worker w runs exactly the next test in this step.
EngineRunsNextTest(w) ==
    /\ Len(wk'[w].outputs) = Len(wk[w].outputs) + 1
    /\ SubSeq(wk'[w].outputs, 1, Len(wk[w].outputs)) = wk[w].outputs
    /\ wk'[w].outputs[Len(wk'[w].outputs)].test_id
          = wk[w].job[1].test_cases[Len(wk'[w].outputs)].id

\* The result evaluated after a stop at test k+1 holds the k TestResults of
\* test cases 1..k and a score of at most their weights.
PartialResult(res, job, k) ==
    /\ Len(res.results) = k
    /\ ResultsOfFirstTests(res, job)
    /\ ExactLe(Exact(res.score), ExactSum(job.test_cases, 1..k))

\* C14 as stated: when the flag is set at the check that precedes test k+1,
\* the engine stops there, and the result holds exactly the k TestResults of
\* test cases 1..k with a score of at most their weights.
C14_StopsWhenFlagSet ==
    [][\A w \in Workers :
          /\ (LoopTurn(w) /\ wk[w].job[1].id \in cancelled) => EngineStops(w)
          /\ (Leaves(w, "evaluate") /\ wk'[w].res # <<>> /\ Observed(wk[w].job[1].id)) =>
                PartialResult(wk'[w].res[1], wk[w].job[1], Len(wk[w].outputs))]_vars

\* C14, amended: the engine stops at the check that precedes test k+1 exactly
\* when that check reads the flag as set; the flag is then set indeed, no
\* later test is run, and the result holds exactly the k TestResults of test
\* cases 1..k with a score of at most their weights.  A check that does not
\* read the flag (store error, or flag not set) is followed by test k+1.
C14_StopsWhenFlagRead ==
    [][\A w \in Workers :
          /\ LoopTurn(w) =>
                LET id == wk[w].job[1].id
                IN  /\ ~Observed(id)
                    /\ \/ /\ hist'[id].observed
                          /\ id \in cancelled
                          /\ EngineStops(w)
                       \/ /\ hist' = hist
                          /\ EngineRunsNextTest(w)
          /\ (wk[w].pc \notin {"idle", "engine", "setup", "test", "panicked"}
              /\ wk'[w].job # <<>> /\ Observed(wk[w].job[1].id)) =>
                wk'[w].outputs = wk[w].outputs
          /\ (Leaves(w, "evaluate") /\ wk'[w].res # <<>> /\ Observed(wk[w].job[1].id)) =>
                PartialResult(wk'[w].res[1], wk[w].job[1], Len(wk[w].outputs))]_vars

\* Witness of C14: a job of two test cases whose flag was read at the check
\* before the second test; its evaluated result holds the first TestResult.
C14_Witness ==
    \E w \in Workers :
        /\ wk[w].pc = "store_result"
        /\ Len(wk[w].job[1].test_cases) = 2
        /\ Observed(wk[w].job[1].id)
        /\ Len(wk[w].res[1].results) = 1
        /\ wk[w].res[1].results[1].test_id = 1

\* C15: every stored ExecutionResult has len(results) <= len(test_cases),
\* with equality unless the cancellation flag of the job was observed during
\* its run; the result of the dead-letter path included.
C15_ResultsLength ==
    \A id \in DOMAIN result :
        LET n == Len(JobOfId(id).test_cases)
        IN  /\ Len(result[id].results) <= n
            /\ Len(result[id].results) = n \/ Observed(id)

(***************************************************************************)
(* Properties of cancel_job, checked under Spec and SpecCancel.            *)
(***************************************************************************)
\* A call of cancel_job for id is answered in this step.
CancelAnswered(id) ==
    /\ id \in DOMAIN hist'
    /\ Len(hist'[id].cancel) = Len(HistOf(id).cancel) + 1

\* The HTTP status of that answer.
CancelAnswer(id) == hist'[id].cancel[Len(hist'[id].cancel)]

CancelTargets == IssuedIds \cup {UnknownId}

\* C16: a cancel request for a job id that is unknown (never enqueued) or
\* that already has a stored result is answered with a conflict, never with
\* the 'cancelling' outcome (200), and does not set the cancellation flag.
\* An answer 500 after a store error is not held against the statement.
C16_ConflictForUnknownOrFinished ==
    [][\A id \in CancelTargets :
          (CancelAnswered(id) /\ (~Enqueued(id) \/ HasKey(result, id))) =>
             /\ CancelAnswer(id) \in {409, 500}
             /\ cancelled' = cancelled]_vars

\* C17: under every interleaving of a cancel request with the worker that
\* executes the job, the request sets the cancellation flag only if no
\* result of the job is stored at the moment the flag is set.
C17_FlagOnlyWithoutResult ==
    [][\A id \in CancelTargets :
          (CancelAnswered(id) /\ CancelAnswer(id) = 200) => ~HasKey(result, id)]_vars

\* C18 as stated: every cancel call for a job with no stored result reports
\* the 'cancelling' outcome (200) and leaves the flag set and the queues and
\* results as they were, however many calls were made before.
C18_EveryCallCancelling ==
    [][\A id \in CancelTargets :
          (CancelAnswered(id) /\ ~HasKey(result, id)) =>
             /\ CancelAnswer(id) = 200
             /\ cancelled' = cancelled \cup {id}
             /\ UNCHANGED <<idem, queue, retry, dlq, result, status>>]_vars

\* C18, amended: a cancel call for a job with no stored result reports 200
\* and leaves the flag set, or reports 500 (the store failed) and leaves the
\* flag as it was; the queues and results are unchanged; a call made when
\* the flag is already set changes nothing in the store.
C18_CallsIdempotent ==
    [][\A id \in CancelTargets :
          (CancelAnswered(id) /\ ~HasKey(result, id)) =>
             /\ CancelAnswer(id) \in {200, 500}
             /\ CancelAnswer(id) = 200 => cancelled' = cancelled \cup {id}
             /\ CancelAnswer(id) = 500 => cancelled' = cancelled
             /\ id \in cancelled => cancelled' = cancelled
             /\ UNCHANGED <<idem, queue, retry, dlq, result, status>>]_vars

\* Witness of C18: two cancel calls for an enqueued job with no stored
\* result were both answered 200, and the flag is set.
C18_Witness ==
    \E id \in IssuedIds :
        /\ Enqueued(id)
        /\ ~HasKey(result, id)
        /\ HistOf(id).cancel = <<200, 200>>
        /\ id \in cancelled

(***************************************************************************)
(* Properties of the engine, checked under Spec.                           *)
(***************************************************************************)
\* The compile step of the job of worker w exits non-zero in this step: the
\* engine returns from its set-up with outputs that no daemon failure made.
CompileFails(w) ==
    /\ wk[w].pc = "setup" /\ wk'[w].pc = "evaluate"
    /\ wk'[w].outputs # <<>>
    /\ wk'[w].outputs[1].stderr # DaemonErrorText

AllOrNoneCompilationFailed(outputs) ==
    \/ \A i \in 1..Len(outputs) : outputs[i].compilation_failed
    \/ \A i \in 1..Len(outputs) : ~outputs[i].compilation_failed

\* Every output is a compilation failure: one per test case, no test run.
OnePerTestCase(outputs, test_cases) ==
    /\ Len(outputs) = Len(test_cases)
    /\ \A i \in 1..Len(outputs) :
          /\ outputs[i].test_id = test_cases[i].id
          /\ outputs[i].compilation_failed
          /\ outputs[i].stdout = EmptyStr

\* The result of a job whose compilation failed.
CompilationFailedResult(res) ==
    /\ \A i \in 1..Len(res.results) : res.results[i].status = "RuntimeError"
    /\ res.score = U32Zero
    /\ res.overall_status = "Failed"

\* C19: when the compile step of a job exits non-zero the engine runs no
\* test and returns exactly one output per test case, each with
\* compilation_failed = true and the compiler's error text in stderr; in one
\* job compilation_failed is true for all outputs or for none; every
\* TestResult is then RuntimeError, the score is 0 and the status is Failed.
C19_CompileFailure ==
    [][\A w \in Workers :
          /\ CompileFails(w) =>
                /\ OnePerTestCase(wk'[w].outputs, wk[w].job[1].test_cases)
                /\ \A i \in 1..Len(wk'[w].outputs) :
                      wk'[w].outputs[i].stderr = CompilerErrorText
          /\ AllOrNoneCompilationFailed(wk'[w].outputs)
          /\ (Leaves(w, "evaluate") /\ wk'[w].res # <<>>
              /\ \E i \in 1..Len(wk[w].outputs) : wk[w].outputs[i].compilation_failed) =>
                CompilationFailedResult(wk'[w].res[1])]_vars

\* The containers created by the engine of worker w that still exist.
ContainersLeft(w) ==
    wk[w].containers.held + wk[w].containers.removing + wk[w].containers.leaked

\* C20: every container the engine creates for a job is eventually removed,
\* on every exit path after its creation, so that no container of a job
\* remains after the job; the removal tasks being scheduled fairly.
C20_ContainersRemoved ==
    \A w \in Workers : (ContainersLeft(w) > 0) ~> (ContainersLeft(w) = 0)

(***************************************************************************)
(* Properties of the per-test deadline, checked under Spec.                *)
(***************************************************************************)
\* The containers the engine of a worker has created so far.
ContainersCreated(containers) ==
    containers.held + containers.removing + containers.removed + containers.leaked

\* The engine of worker w runs a test in the container of the job in this step.
TestStarts(w) ==
    /\ LoopTurn(w)
    /\ wk[w].mode = "compile_once"
    /\ EngineRunsNextTest(w)

LastRun(w) == wk'[w].runs[Len(wk'[w].runs)]

LastOutput(w) == wk'[w].outputs[Len(wk'[w].outputs)]

\* C21: when the exec of a test in the job's container exceeds timeout_ms the
\* output is marked timed_out and the process is killed while the container
\* stays: no process of a timed-out test is running when a test starts, and
\* the next tests run in the same container.
C21_TimeoutKillsProcess ==
    [][\A w \in Workers :
          TestStarts(w) =>
             /\ wk[w].containers.running = 0
             /\ (LastRun(w).deadline_passed /\ ~LastRun(w).daemon_error) => LastOutput(w).timed_out
             /\ wk[w].containers.held = 1
             /\ ContainersCreated(wk'[w].containers) = ContainersCreated(wk[w].containers)
             /\ wk'[w].pc = "test" => wk'[w].containers.held = 1]_vars

\* s starts with p, for strings held as runs.
StartsWith(s, p) ==
    \/ p = <<>>
    \/ /\ Len(p) <= Len(s)
       /\ SubSeq(s, 1, Len(p) - 1) = SubSeq(p, 1, Len(p) - 1)
       /\ s[Len(p)].c = p[Len(p)].c
       /\ IF Len(p) = Len(s) THEN p[Len(p)].n <= s[Len(p)].n ELSE p[Len(p)].n = s[Len(p)].n

\* C22: the output of a test whose exec was cut off at the deadline holds
\* the stdout and the stderr the process had written before the deadline.
C22_PartialOutputKept ==
    \A w \in Workers :
        \A i \in 1..Len(wk[w].runs) :
            (wk[w].runs[i].deadline_passed /\ ~wk[w].runs[i].daemon_error) =>
                /\ wk[w].outputs[i].timed_out
                /\ wk[w].outputs[i].stdout = wk[w].runs[i].stdout
                /\ StartsWith(wk[w].outputs[i].stderr, wk[w].runs[i].stderr)

(***************************************************************************)
(* Properties of the queues, checked under SpecQueue.                      *)
(***************************************************************************)
\* Worker w dequeues a job in this step.
Dequeues(w) == wk[w].pc = "idle" /\ wk'[w].pc = "engine"

\* C23: a worker services the main queue before the retry queue: whenever
\* both queues hold a job at a pop, the job popped is the head of the main
\* queue and the retry queue is left as it is; the retry queue is popped
\* only when the main queue is empty.
C23_MainBeforeRetry ==
    [][\A w \in QueueWorkers :
          LET l == WorkerLanguage(w)
          IN  Dequeues(w) =>
                 /\ queue[l] # <<>> =>
                       /\ wk'[w].job = <<Head(queue[l])>>
                       /\ queue'[l] = Tail(queue[l])
                       /\ retry' = retry
                 /\ retry' # retry => queue[l] = <<>>]_vars

\* Job id waits in the retry queue: its last push went there and was not popped.
WaitsInRetry(id) ==
    LET h == HistOf(id)
    IN  /\ Len(h.pushed) > Len(h.popped)
        /\ h.pushed[Len(h.pushed)].list = "retry"

\* Witness of C23: a job was pushed to the main queue after another job had
\* been requeued, and was dequeued while that job still waits in the retry
\* queue.
C23_Witness ==
    \E a \in DOMAIN hist, b \in DOMAIN hist :
        /\ a # b
        /\ WaitsInRetry(a)
        /\ retry["python"] # <<>> /\ retry["python"][1].id = a
        /\ Len(hist[b].pushed) = 1 /\ Len(hist[b].popped) = 1
        /\ hist[b].pushed[1].list = "main"
        /\ hist[b].pushed[1].at > hist[a].pushed[Len(hist[a].pushed)].at

\* The pushes made to the main and the retry queue, as <<job id, number of
\* the push among the pushes of the job>>.  A job is in one place at a time,
\* so its n-th pop takes what its n-th push put.
QueuePushes ==
    { <<id, n>> \in (DOMAIN hist) \X (1..(DefaultMaxAttempts + 1)) :
        n <= Len(hist[id].pushed) /\ hist[id].pushed[n].list \in {"main", "retry"} }

PushOf(p) == hist[p[1]].pushed[p[2]]

Popped(p) == Len(hist[p[1]].popped) >= p[2]

PopTime(p) == hist[p[1]].popped[p[2]]

QueryAnswered(id) ==
    /\ id \in DOMAIN hist'
    /\ Len(hist'[id].queries) = Len(HistOf(id).queries) + 1

NewAnswer(id) == hist'[id].queries[Len(hist'[id].queries)]

\* The results earlier queries for id have returned.
ResultsReturned(id) ==
    { HistOf(id).queries[i].body[1] :
        i \in { j \in 1..Len(HistOf(id).queries) : HistOf(id).queries[j].http = 200 } }

\* A stored result is neither removed nor changed.
ResultsKept ==
    \A id \in DOMAIN result : HasKey(result', id) /\ result'[id] = result[id]

\* C25 as stated: a stored result is never modified, and once a status query
\* has returned the result of a job every later query for the job returns
\* that same result.
C25_SameResultAlways ==
    [][/\ ResultsKept
       /\ \A id \in IssuedIds :
             (QueryAnswered(id) /\ ResultsReturned(id) # {}) =>
                /\ NewAnswer(id).http = 200
                /\ NewAnswer(id).body[1] \in ResultsReturned(id)
                /\ Cardinality(ResultsReturned(id)) = 1]_vars

\* C25, amended: a stored result is never modified, and once a status query
\* has returned the result of a job every later query for the job returns
\* that same result, or INTERNAL_ERROR (500) when the store fails the read;
\* it never returns pending.
C25_SameResultOrError ==
    [][/\ ResultsKept
       /\ \A id \in IssuedIds :
             (QueryAnswered(id) /\ ResultsReturned(id) # {}) =>
                /\ Cardinality(ResultsReturned(id)) = 1
                /\ \/ /\ NewAnswer(id).http = 200
                      /\ NewAnswer(id).body[1] \in ResultsReturned(id)
                   \/ /\ NewAnswer(id).http = 500
                      /\ NewAnswer(id).body = <<>>]_vars

\* Witness of C25: two status queries returned the stored result, the same
\* both times, and a cancel call for the job was refused.
C25_Witness ==
    \E id \in DOMAIN hist :
        /\ Len(hist[id].queries) = 2
        /\ hist[id].queries[1].http = 200
        /\ hist[id].queries[2] = hist[id].queries[1]
        /\ hist[id].queries[1].body = <<result[id]>>
        /\ hist[id].cancel = <<409>>

(***************************************************************************)
(* Properties of the numbering of the test cases, checked under Spec.      *)
(***************************************************************************)
\* The jobs in the queues and in the hands of the workers.
JobsAround ==
    UNION { { q[l][i] : i \in 1..Len(q[l]) } : q \in {queue, retry, dlq}, l \in Languages }
    \cup UNION { { wk[w].job[i] : i \in 1..Len(wk[w].job) } : w \in Workers }

\* The payload of the request that drew job id.
PayloadOfId(id) ==
    LET r == CHOOSE q \in DOMAIN api : api[q].job_id = <<id>>
    IN  api[r].payload[1]

\* The test cases of the job are those of the payload, in the order of the
\* payload, numbered from 1.
NumberedInOrder(job) ==
    LET supplied == PayloadOfId(job.id).test_cases
    IN  /\ Len(job.test_cases) = Len(supplied)
        /\ \A i \in 1..Len(supplied) :
              /\ job.test_cases[i].id = i
              /\ job.test_cases[i].input = supplied[i].input
              /\ job.test_cases[i].expected_output = supplied[i].expected_output
              /\ job.test_cases[i].weight = supplied[i].weight

\* C26: admission numbers the test cases 1..N in the order the client
\* supplied them, and the results of every stored ExecutionResult are in
\* that order: the result at position i (counted from 1) has test_id i.
C26_TestOrder ==
    /\ \A job \in JobsAround : NumberedInOrder(job)
    /\ \A id \in DOMAIN result :
          \A i \in 1..Len(result[id].results) : result[id].results[i].test_id = i

\* Witness of C26: the stored result of a job of two different test cases
\* holds the result of test 1 and then that of test 2.
C26_Witness ==
    \E id \in DOMAIN result :
        /\ Len(PayloadOfId(id).test_cases) = 2
        /\ PayloadOfId(id).test_cases[1].input # PayloadOfId(id).test_cases[2].input
        /\ Len(result[id].results) = 2
        /\ result[id].results[1].test_id = 1
        /\ result[id].results[2].test_id = 2

(***************************************************************************)
(* Properties of normalize_output, checked under SpecNorm.                 *)
(***************************************************************************)
\* The characters of a string, one by one.
RECURSIVE ToChars(_)
ToChars(s) ==
    IF s = <<>> THEN <<>>
    ELSE [i \in 1..Head(s).n |-> Head(s).c] \o ToChars(Tail(s))

\* The sequence `part` is `whole` without some whitespace characters at its
\* start and at its end; every other character is kept as it is, in place.
CutAtEndsOnly(part, whole) ==
    \E i \in 1..(Len(whole) + 1) :
        /\ i + Len(part) - 1 <= Len(whole)
        /\ part = SubSeq(whole, i, i + Len(part) - 1)
        /\ \A k \in 1..(i - 1) : whole[k] \in Whitespace
        /\ \A k \in (i + Len(part))..Len(whole) : whole[k] \in Whitespace

\* C27: normalize(x + w) = normalize(x + newline) = normalize(x) for every
\* string x and every string w of whitespace characters; normalize is
\* idempotent; it changes neither case nor internal whitespace.
C27_NormalizationLaw ==
    ev.phase = "done" =>
        /\ ev.nxw = ev.nx
        /\ ev.nxn = ev.nx
        /\ ev.nnx = ev.nx
        /\ CutAtEndsOnly(ToChars(ev.nx), ev.x)

\* Witness of C27: "A a", a string with an upper-case letter and whitespace
\* inside, was normalized alone and followed by a newline and a tab, and
\* came back unchanged both times.
C27_Witness ==
    /\ ev.phase = "done"
    /\ ev.x = <<"A", " ", "a">>
    /\ ev.w = <<"\n", "\t">>
    /\ ToChars(ev.nx) = <<"A", " ", "a">>
    /\ ToChars(ev.nxw) = <<"A", " ", "a">>

(***************************************************************************)
(* Properties of the containers of a job, checked under Spec (one job).    *)
(***************************************************************************)
\* The tests of the job of worker w that ran in a container.
TestsRun(w) == { i \in 1..Len(wk[w].runs) : ~wk[w].runs[i].daemon_error }

\* C28: the execution of a job allocates one container for the whole job
\* and runs the compile step at most once; every test case of the job is
\* executed in that same container.
C28_OneContainerPerJob ==
    \A w \in Workers :
        /\ ContainersCreated(wk[w].containers) <= 1
        /\ wk[w].containers.compiled <= 1
        /\ TestsRun(w) # {} => ContainersCreated(wk[w].containers) = 1

(***************************************************************************)
(* Properties of the input caps of the engine, checked under SpecEngine.   *)
(***************************************************************************)
\* The job is over a cap of the engine: its source is over 1 MiB or the
\* input of one of its tests is over 10 MiB.
OverEngineCaps(job) ==
    \/ ByteLen(job.source_code) > MAX_SOURCE_CODE_BYTES
    \/ \E i \in 1..Len(job.test_cases) :
          ByteLen(job.test_cases[i].input) > MAX_TEST_INPUT_BYTES

\* The statuses evaluate gives to the outputs made so far for the job of w.
TestStatuses(w) ==
    { TestStatusOf(wk[w].outputs[i], wk[w].job[1].test_cases[i]) : i \in 1..Len(wk[w].outputs) }

\* C29: when a job is over an input cap of the engine the outcome is an
\* infrastructure error handled by the retry and dead-letter path of the
\* worker loop: the engine run ends with the job on that path, attempts
\* counted, and no test of the job gets a status in a stored result.
C29_CapsAreInfrastructureErrors ==
    [][\A w \in Workers :
          /\ (wk[w].pc \in {"setup", "test"} /\ wk'[w].pc \notin {"setup", "test"}
              /\ OverEngineCaps(wk[w].job[1])) =>
                /\ wk'[w].pc \in {"retry", "dlq"}
                /\ wk'[w].job[1].metadata.attempts = wk[w].job[1].metadata.attempts + 1
          /\ \A id \in DOMAIN result' :
                (id \notin DOMAIN result /\ OverEngineCaps(wk[w].job[1])) =>
                    result'[id].results = <<>>]_vars

(***************************************************************************)
(* Properties of the idempotency record written after the push, checked    *)
(* under SpecApi.                                                          *)
(***************************************************************************)
\* The job of request r is on the queue of its language.
OnItsQueue(q, r) ==
    \E i \in 1..Len(q[api[r].payload[1].language]) :
        q[api[r].payload[1].language][i].id = api[r].job_id[1]

\* C30: when the store fails the write of the idempotency record after the
\* job was pushed, the submission is still answered 202 with its job id and
\* the job stays on its queue: the step changes no queue and no record.
C30_AcceptedWithoutRecord ==
    [][\A r \in Requests :
          (api[r].pc = "record" /\ api'[r].pc # "record" /\ ~api'[r].recorded) =>
              /\ api'[r].response = <<Accepted(api[r].job_id[1])>>
              /\ OnItsQueue(queue, r)
              /\ queue' = queue /\ retry' = retry /\ dlq' = dlq
              /\ idem' = idem]_vars

\* Witness of C30: a submission with a key was pushed, the write of its
\* record failed (no record is stored), it was answered 202 with its job id
\* and its job is on the queue.
C30_Witness ==
    \E r \in Requests :
        /\ api[r].pc = "done" /\ api[r].key # <<>>
        /\ api[r].job_id # <<>> /\ ~api[r].recorded
        /\ idem[api[r].key[1]] = <<>>
        /\ api[r].response = <<Accepted(api[r].job_id[1])>>
        /\ OnItsQueue(queue, r)

(***************************************************************************)
(* Concurrent submissions with one Idempotency-Key, checked under SpecApi. *)
(***************************************************************************)
\* Requests r and p carry the same key and the same payload, the store
\* answered the lookup of both, and both are in flight at once, each past
\* its push and before the write of its record.
ConcurrentTwins(r, p) ==
    /\ r # p
    /\ api[r].pc = "record" /\ api[p].pc = "record"
    /\ api[r].key = api[p].key
    /\ api[r].payload = api[p].payload
    /\ api[r].lookup # "error" /\ api[p].lookup # "error"

\* The number of entries of the queue q that carry one of the ids.
EntriesOf(q, ids) == Cardinality({ i \in 1..Len(q) : q[i].id \in ids })

\* C31: for every interleaving of concurrent submissions with the same
\* Idempotency-Key and the same valid payload, at most one job is enqueued
\* and all of them get the same job id.
C31_ConcurrentSameKeyOneJob ==
    \A r \in Requests, p \in Requests :
        ConcurrentTwins(r, p) =>
            /\ api[r].job_id = api[p].job_id
            /\ EntriesOf(queue[api[r].payload[1].language],
                         {api[r].job_id[1], api[p].job_id[1]}) <= 1

(***************************************************************************)
(* Shutdown of the worker, checked under SpecShutdown.                     *)
(***************************************************************************)
\* The job is an entry of the queue q of its language.
QueuedIn(q, job) == \E i \in 1..Len(q[job.language]) : q[job.language][i].id = job.id

\* C32: when the shutdown signal arrives while the worker processes a job it
\* popped, the worker finishes the job before the process exits: a worker
\* that has exited holds no job, or the result of its job is written, or the
\* job is back on the retry queue or on the dead-letter queue.
C32_ShutdownFinishesJob ==
    \A w \in Workers :
        (wk[w].pc = "exited" /\ wk[w].job # <<>>) =>
            \/ HasKey(result, wk[w].job[1].id)
            \/ QueuedIn(retry, wk[w].job[1])
            \/ QueuedIn(dlq, wk[w].job[1])

(***************************************************************************)
(* A flag set after the last cancellation check, checked under Spec.       *)
(***************************************************************************)
\* The only write of the flag of id came after the final check of its run.
CancelledTooLate(id) == HistOf(id).late /\ HistOf(id).cancel = <<200>>

\* C33: a job past the cancellation check of its final test case cannot be
\* cancelled: when the flag is set only after that check, the stored result
\* has one TestResult per test case and its overall_status follows the score
\* (Completed or Failed), never Cancelled.
C33_NoCancelAfterFinalCheck ==
    /\ \A id \in DOMAIN result :
          CancelledTooLate(id) =>
              /\ Len(result[id].results) = Len(JobOfId(id).test_cases)
              /\ result[id].overall_status = OverallStatus(result[id].score)
              /\ result[id].overall_status # "Cancelled"
    /\ \A w \in Workers :
          (wk[w].res # <<>> /\ CancelledTooLate(wk[w].res[1].job_id)) =>
              /\ Len(wk[w].res[1].results) = Len(wk[w].job[1].test_cases)
              /\ wk[w].res[1].overall_status = OverallStatus(wk[w].res[1].score)
              /\ ~Observed(wk[w].res[1].job_id)

\* Witness of C33: the flag of a job of two tests was set after its engine
\* returned, by the only cancel request made for it; its stored result has
\* both TestResults and is Completed.
C33_Witness ==
    \E id \in DOMAIN result :
        /\ CancelledTooLate(id)
        /\ id \in cancelled
        /\ HistOf(id).writes = 1
        /\ Len(JobOfId(id).test_cases) = 2
        /\ Len(result[id].results) = 2
        /\ result[id].overall_status = "Completed"
        /\ \E w \in Workers : wk[w].pc = "store_status" /\ wk[w].res[1].job_id = id

(***************************************************************************)
(* One output per test case, checked under Spec.                           *)
(***************************************************************************)
\* The engine of worker w has returned its outputs for the job w holds.
EngineReturned(w) == wk[w].job # <<>> /\ wk[w].pc = "evaluate"

\* C34: when compilation succeeds and no cancellation is observed, the engine
\* returns exactly one output per test case, in the order of the test cases,
\* and every test was run, whatever happened in the tests before it (a
\* runtime error, a timeout, a daemon error).
C34_OneOutputPerTest ==
    \A w \in Workers :
        (/\ EngineReturned(w)
         /\ ~Observed(wk[w].job[1].id)
         /\ \A i \in 1..Len(wk[w].outputs) : ~wk[w].outputs[i].compilation_failed) =>
            /\ Len(wk[w].outputs) = Len(wk[w].job[1].test_cases)
            /\ Len(wk[w].runs) = Len(wk[w].job[1].test_cases)
            /\ \A i \in 1..Len(wk[w].outputs) :
                  wk[w].outputs[i].test_id = wk[w].job[1].test_cases[i].id

\* Witness of C34: the engine call of the first of two tests failed with a
\* daemon error and the second test was run and ended cleanly.
C34_Witness ==
    \E w \in Workers :
        /\ EngineReturned(w)
        /\ ~Observed(wk[w].job[1].id)
        /\ Len(wk[w].job[1].test_cases) = 2
        /\ Len(wk[w].outputs) = 2 /\ Len(wk[w].runs) = 2
        /\ wk[w].runs[1].daemon_error /\ wk[w].outputs[1].runtime_error
        /\ ~wk[w].runs[2].daemon_error /\ ~wk[w].runs[2].deadline_passed
        /\ wk[w].outputs[2].test_id = 2
        /\ ~wk[w].outputs[2].runtime_error /\ ~wk[w].outputs[2].timed_out

(***************************************************************************)
(* Validation and the idempotency record, checked under SpecApi.           *)
(***************************************************************************)
\* The validation error of a payload: the language check, then the safety
\* checks; "OK" for a valid payload.
ValidationError(payload) ==
    IF ~is_enabled(payload.language) THEN "LANGUAGE_NOT_SUPPORTED" ELSE SafetyChecks(payload)

\* C35: a submission that violates a validation rule is answered with the
\* error code of that rule, also when it carries an Idempotency-Key that has
\* a record: it never gets IDEMPOTENCY_CONFLICT or a job id.
C35_ValidationBeforeIdempotency ==
    \A r \in Requests :
        (/\ api[r].pc = "done"
         /\ api[r].payload # <<>>
         /\ ValidationError(api[r].payload[1]) # "OK") =>
            /\ api[r].response[1].code = ValidationError(api[r].payload[1])
            /\ api[r].response[1].job_id = <<>>

(***************************************************************************)
(* The attempts counter, checked under Spec.                               *)
(***************************************************************************)
\* Every copy of a job in the list q has its attempts within lo..hi.
AttemptsWithin(q, lo, hi) ==
    \A l \in DOMAIN q : \A i \in 1..Len(q[l]) :
        /\ q[l][i].metadata.attempts >= lo
        /\ q[l][i].metadata.attempts <= hi
        /\ q[l][i].metadata.attempts <= q[l][i].metadata.max_attempts

\* The bounds of attempts in each place a copy of a job can be.
AttemptsBounded ==
    /\ AttemptsWithin(queue, 0, 0)
    /\ AttemptsWithin(retry, 1, DefaultMaxAttempts - 1)
    /\ AttemptsWithin(dlq, DefaultMaxAttempts, DefaultMaxAttempts)
    /\ \A w \in Workers :
          wk[w].job # <<>> =>
              wk[w].job[1].metadata.attempts <= wk[w].job[1].metadata.max_attempts

\* The job worker w holds before and after the step: its attempts do not
\* decrease, and change only by one, when the engine could not be created and
\* the job goes to the retry or the dead-letter queue.
AttemptsStep(w) ==
    (wk[w].job # <<>> /\ wk'[w].job # <<>>) =>
        LET before == wk[w].job[1].metadata.attempts
            after  == wk'[w].job[1].metadata.attempts
        IN  /\ after >= before
            /\ after # before =>
                  /\ after = before + 1
                  /\ wk[w].pc = "engine"
                  /\ wk'[w].pc \in {"retry", "dlq"}

\* C36: every copy of a job has attempts <= max_attempts: 0 in the main
\* queue, from 1 to max_attempts - 1 in the retry queue, max_attempts in the
\* dead-letter queue; attempts never decreases and changes only when a worker
\* hands the job back after an infrastructure failure.
C36_AttemptsBounded ==
    /\ []AttemptsBounded
    /\ [][\A w \in Workers : AttemptsStep(w)]_vars

\* Witness of C36: a job failed three times; it was on the retry queue twice
\* and is on the dead-letter queue with attempts = max_attempts = 3.
C36_Witness ==
    \E l \in DOMAIN dlq :
        /\ Len(dlq[l]) = 1
        /\ dlq[l][1].metadata.attempts = 3
        /\ dlq[l][1].metadata.max_attempts = 3
        /\ Len(HistOf(dlq[l][1].id).pushed) = 4
        /\ HistOf(dlq[l][1].id).pushed[2].list = "retry"
        /\ HistOf(dlq[l][1].id).pushed[3].list = "retry"
        /\ HistOf(dlq[l][1].id).pushed[4].list = "dlq"

(***************************************************************************)
(* A job is in one place at a time, checked under SpecPool.                *)
(***************************************************************************)
\* The number of entries of the lists of q that carry the job id.
CopiesIn(q, id) ==
    Cardinality(UNION { { <<l, i>> : i \in { j \in 1..Len(q[l]) : q[l][j].id = id } } :
                        l \in DOMAIN q })

\* The workers that hold the job id.
HoldersOf(id) == { w \in DOMAIN wk : wk[w].job # <<>> /\ wk[w].job[1].id = id }

\* C37: with several workers running concurrently, every job id occurs at
\* most once across the main queue, the retry queue and the jobs held by the
\* workers, so that no two workers execute one job at the same time; a job
\* with a stored result is in neither the main nor the retry queue.
C37_OnePlaceAtATime ==
    \A id \in 1..(nextId - 1) :
        /\ CopiesIn(queue, id) + CopiesIn(retry, id) + Cardinality(HoldersOf(id)) <= 1
        /\ HasKey(result, id) => CopiesIn(queue, id) + CopiesIn(retry, id) = 0

\* Witness of C37: a job popped by one worker failed there, went to the retry
\* queue and is now held by the other worker, while the first is idle and
\* both queues are empty.
C37_Witness ==
    \E id \in 1..(nextId - 1) :
        /\ HoldersOf(id) = {"w2"}
        /\ wk["w1"].job = <<>> /\ wk["w1"].pc = "idle"
        /\ wk["w2"].pc = "test"
        /\ wk["w2"].job[1].metadata.attempts = 1
        /\ Len(HistOf(id).popped) = 2
        /\ CopiesIn(queue, id) + CopiesIn(retry, id) = 0

(***************************************************************************)
(* The flags of an output, checked under SpecClassify.                     *)
(***************************************************************************)
\* The number of flags set in the output o.
FlagsSet(o) ==
    (IF o.timed_out THEN 1 ELSE 0) + (IF o.runtime_error THEN 1 ELSE 0)
        + (IF o.compilation_failed THEN 1 ELSE 0)

\* C38: every output the engine produces has at most one of timed_out,
\* runtime_error and compilation_failed set; an exec that ends before the
\* deadline with an unknown exit code has none set, and a timed-out exec is
\* not marked runtime_error.
C38_AtMostOneFlag ==
    ev.phase = "done" =>
        LET o == ev.output[1]
        IN  /\ FlagsSet(o) <= 1
            /\ o.timed_out => ~o.runtime_error
            /\ (/\ ev.kind = "test" /\ ~ev.run.daemon_error /\ ~ev.run.deadline_passed
                /\ ev.run.exit_code = <<>>) => FlagsSet(o) = 0
            /\ (ev.kind = "test" /\ ~ev.run.daemon_error /\ ev.run.deadline_passed) =>
                  o.timed_out

\* Witness of C38: an exec that ended before the deadline with no exit code
\* and text on both streams gave an output without a flag.
C38_Witness ==
    /\ ev.phase = "done" /\ ev.kind = "test"
    /\ ~ev.run.daemon_error /\ ~ev.run.deadline_passed
    /\ ev.run.exit_code = <<>>
    /\ ev.run.stdout = Str("x") /\ ev.run.stderr = Str("e")
    /\ FlagsSet(ev.output[1]) = 0
    /\ ev.output[1].stderr = Str("e")

(***************************************************************************)
(* A job cancelled before its run, checked under Spec.                     *)
(***************************************************************************)
\* The set-up of the single-container engine of worker w ends in this step.
SetupEnds(w) == wk[w].pc = "setup" /\ wk'[w].pc # "setup"

\* The engine of w returns without having touched the daemon: no container,
\* no compile step, no test, no output.
ReturnsUntouched(w) ==
    /\ wk'[w].pc = "evaluate"
    /\ wk'[w].outputs = <<>> /\ wk'[w].runs = <<>>
    /\ wk'[w].containers = wk[w].containers

\* The evaluation of w in this step, when the engine returned no output,
\* gives a result with no TestResult and score 0.
EmptyResult(w) ==
    (wk[w].pc = "evaluate" /\ wk'[w].pc = "store_result" /\ wk[w].outputs = <<>>) =>
        /\ wk'[w].res[1].results = <<>>
        /\ wk'[w].res[1].score = U32Zero

\* C39 as stated: when the cancellation flag of a job is set at the time the
\* single-container engine starts on it, the engine creates no container,
\* runs no compile step and no test and returns no output, and the result
\* has no TestResult and score 0.
C39_CancelledBeforeStart ==
    [][\A w \in Workers :
          /\ (SetupEnds(w) /\ wk[w].job[1].id \in cancelled) => ReturnsUntouched(w)
          /\ EmptyResult(w)]_vars

\* C39, amended: the same when the early check reads the flag as set; a
\* check that the store fails counts as "not cancelled" and the run goes on.
C39_CancelledSeenBeforeStart ==
    [][\A w \in Workers :
          /\ (SetupEnds(w) /\ ~Observed(wk[w].job[1].id) /\ Observed(wk[w].job[1].id)')
                => ReturnsUntouched(w)
          /\ (SetupEnds(w) /\ wk[w].job[1].id \in cancelled /\ ReturnsUntouched(w))
                => Observed(wk[w].job[1].id)'
          /\ EmptyResult(w)]_vars

\* Witness of C39: a job whose flag is set was taken, at its first attempt,
\* by a worker in compile-once mode, whose engine saw the flag before any
\* test; no container was ever created and the stored result has no
\* TestResult and score 0.
C39_Witness ==
    \E w \in Workers :
        /\ wk[w].pc = "store_status" /\ wk[w].mode = "compile_once"
        /\ wk[w].job[1].id \in cancelled
        /\ Observed(wk[w].job[1].id)
        /\ wk[w].job[1].metadata.attempts = 0
        /\ wk[w].outputs = <<>> /\ wk[w].runs = <<>>
        /\ ContainersCreated(wk[w].containers) = 0
        /\ HasKey(result, wk[w].job[1].id)
        /\ result[wk[w].job[1].id].results = <<>>
        /\ result[wk[w].job[1].id].score = U32Zero

(***************************************************************************)
(* A failed lookup of the idempotency record, checked under SpecApi.       *)
(***************************************************************************)
\* Request r, whose lookup the store failed, leaves the position pc in this step.
ErrorPathLeaves(r, pc) ==
    /\ api[r].pc = pc /\ api'[r].pc # pc
    /\ api'[r].lookup = "error"

\* The record submit_job writes for request r.
RecordOf(r) == <<[job_id |-> api[r].job_id[1], payload |-> payload_json(api[r].payload[1])]>>

\* The arrival of a request whose lookup failed: an invalid payload gets its
\* validation error; a valid one gets a fresh job id and goes on to the
\* push, whether a record of its key exists or not.
LookupErrorArrival(r) ==
    ErrorPathLeaves(r, "idle") =>
        IF ValidationError(api'[r].payload[1]) # "OK"
        THEN /\ api'[r].pc = "done"
             /\ api'[r].response[1].code = ValidationError(api'[r].payload[1])
        ELSE /\ api'[r].pc = "push"
             /\ api'[r].job_id = <<nextId>> /\ nextId' = nextId + 1
             /\ \A q \in Requests : q # r => api[q].job_id # <<nextId>>

\* C40 as stated: when the store fails the lookup of the idempotency record,
\* the submission proceeds as if it had no key: after validation a fresh job
\* id is generated and the job is enqueued, even when a record of the key
\* exists, and the record is then overwritten with the new job id.
C40_LookupErrorProceeds ==
    [][\A r \in Requests :
          /\ LookupErrorArrival(r)
          /\ ErrorPathLeaves(r, "push") =>
                /\ api'[r].pc = "record"
                /\ queue' = push_job(queue, BuildJob(api[r].job_id[1], api[r].payload[1]))
          /\ ErrorPathLeaves(r, "record") =>
                /\ api'[r].response = <<Accepted(api[r].job_id[1])>>
                /\ idem' = [idem EXCEPT ![api[r].key[1]] = RecordOf(r)]]_vars

\* C40, amended: the same when the store executes the push and the write of
\* the record; a failed push ends the request with QUEUE_FAILURE and nothing
\* enqueued, a failed write leaves the record as it was and the request is
\* still accepted.
C40_LookupErrorProceedsIfStoreWrites ==
    [][\A r \in Requests :
          /\ LookupErrorArrival(r)
          /\ ErrorPathLeaves(r, "push") =>
                \/ /\ api'[r].pc = "record"
                   /\ queue' = push_job(queue, BuildJob(api[r].job_id[1], api[r].payload[1]))
                \/ /\ api'[r].pc = "done"
                   /\ api'[r].response[1].code = "QUEUE_FAILURE"
                   /\ queue' = queue /\ idem' = idem
          /\ ErrorPathLeaves(r, "record") =>
                /\ api'[r].response = <<Accepted(api[r].job_id[1])>>
                /\ queue' = queue
                /\ \/ api'[r].recorded /\ idem' = [idem EXCEPT ![api[r].key[1]] = RecordOf(r)]
                   \/ ~api'[r].recorded /\ idem' = idem]_vars

\* Witness of C40: a first submission was recorded under a key; the lookup
\* of a second one with the same key and payload failed, and it got a job id
\* of its own, was enqueued as well, and its record replaced the first.
C40_Witness ==
    \E r \in Requests, p \in Requests :
        /\ p # r
        /\ api[p].pc = "done" /\ api[p].recorded /\ api[p].lookup = "none"
        /\ api[r].pc = "done" /\ api[r].recorded /\ api[r].lookup = "error"
        /\ api[r].key = api[p].key /\ api[r].payload = api[p].payload
        /\ api[r].job_id # api[p].job_id
        /\ api[r].response = <<Accepted(api[r].job_id[1])>>
        /\ idem[api[r].key[1]] = RecordOf(r)
        /\ OnItsQueue(queue, r) /\ OnItsQueue(queue, p)

====
